---- MODULE Spec2Model ----
(***************************************************************************)
(* Stream state machines and response converters of the AI gateway.        *)
(*                                                                         *)
(* Strings that the converters only copy or concatenate (text deltas,      *)
(* tool-call argument fragments) are sequences of one-character strings,   *)
(* so that concatenation is \o and the empty string is << >>.  Strings     *)
(* that the converters compare against literals (finish reasons, block     *)
(* types, ids) are TLA+ strings.                                           *)
(***************************************************************************)
EXTENDS Integers, Sequences, FiniteSets, TLC

\* ------------------------------------------------------------------ bounds
\* Number of upstream chunks fed to one OpenAI Chat -> Anthropic machine.
MaxChunks == 3

\* Number of upstream chunks fed to one OpenAI Chat -> Responses machine.
MaxResponsesChunks == 3

\* Number of upstream lines read by one Gemini -> Anthropic pump loop.
MaxGeminiLines == 3

\* Number of upstream lines read by one OpenAI Responses -> Anthropic pump loop.
MaxResponsesLines == 4

\* Number of upstream lines read by one OpenAI Chat -> Anthropic pump loop.
MaxChatLines == 3

\* Number of upstream lines read by one pump loop writing "data:" frames.
MaxPumpLines == 4

\* Number of provider configs linked to one API key.
MaxConfigs == 2

\* Number of upstream lines read by the pump loop of one gateway request.
MaxGatewayLines == 2

\* Contents of one Gemini request, and parts of one content.
MaxGeminiContents == 2
MaxGeminiParts == 2

\* Messages of one OpenAI chat request.
MaxRequestMessages == 3

\* Provider config rows ever created for the user, and the requests of the
\* user that the server handles at the same time.
MaxConfigRows == 2
MaxConfigCallers == 2

\* Lines the upstream sends on one streaming response body.
MaxUpstreamLines == 4

\* Requests of one API key whose usage is being recorded at the same time.
MaxUsageCallers == 2

\* ------------------------------------------------------------------ state
VARIABLES
    oaState,       \* the OpenAIToAnthropicStreamState record of the stream
    oaOut,         \* all events returned so far, in order
    oaLast,        \* the events returned by the last call
    oaLastChunk,   \* the chunk of the last call (<< >> before the first)
    oaCalls,       \* number of calls made
    oaStopped,     \* message_stop had been emitted before the last call
    oaTextIn,      \* concatenation of delta.content of every chunk fed
    oaTextInLive,  \* ... of the chunks fed while state.finished was false
    oaArgsInLive   \* concatenation of the argument fragments fed likewise

oaVars == <<oaState, oaOut, oaLast, oaLastChunk, oaCalls, oaStopped,
            oaTextIn, oaTextInLive, oaArgsInLive>>

VARIABLES
    crState,      \* the OpenAIChatToResponsesStreamState record of the stream
    crPrev,       \* the state record as it was before the last call
    crOut,        \* all events returned so far, in order
    crLast,       \* the events returned by the last call
    crLastChunk,  \* the chunk of the last call (<< >> before the first)
    crCalls,      \* number of calls made
    crCompleted   \* response.completed had been emitted before the last call

crVars == <<crState, crPrev, crOut, crLast, crLastChunk, crCalls, crCompleted>>

VARIABLES
    gaPc,         \* "reading" in the pump loop, "returned" after it, "failed" on a read error
    gaIsFirst,    \* the handler's isFirst flag
    gaOut,        \* all events written to the client, in order
    gaLast,       \* the events the converter returned for the last data line
    gaLastEvent,  \* the upstream event of the last data line (<< >> if none)
    gaTextBefore, \* a text_delta had been written before the last line
    gaLines       \* number of upstream lines read

gaVars == <<gaPc, gaIsFirst, gaOut, gaLast, gaLastEvent, gaTextBefore, gaLines>>

VARIABLES
    aoResp,    \* the upstream Anthropic response of the last conversion
    aoResult,  \* the ChatCompletionResponse it returned
    aoDone     \* a conversion has been made

aoVars == <<aoResp, aoResult, aoDone>>

VARIABLES
    raPc,      \* "reading" in the pump loop, "returned" after it, "failed" on a read error
    raFrames,  \* the SSE frames written to the client, in order
    raIn,      \* the upstream events of the data lines converted so far
    raLines    \* number of upstream lines read

raVars == <<raPc, raFrames, raIn, raLines>>

VARIABLES
    hcPc,      \* "reading" in the pump loop, "returned" after it, "failed" on a read error
    hcState,   \* the stream state record handed to the converter
    hcFrames,  \* the SSE frames written to the client, in order
    hcEnd,     \* why the loop was left: "" (still in it), "done", "eof", "error"
    hcLines,   \* number of upstream lines read
    hcSkipped, \* number of lines the loop skipped with continue
    hcLateCalls \* converter calls made after the machine had finished

hcVars == <<hcPc, hcState, hcFrames, hcEnd, hcLines, hcSkipped, hcLateCalls>>

VARIABLES
    plHandler,  \* the streaming handler that was called ("" before the call)
    plPc,       \* "idle", "reading" in the pump loop, "returned", "failed"
    plFrames,   \* the "data:" frames written to the client, in order
    plEnd,      \* why the loop was left: "" (still in it), "done", "eof", "error"
    plLines     \* number of upstream lines read

plVars == <<plHandler, plPc, plFrames, plEnd, plLines>>

VARIABLES
    rpKey,     \* the API key of the request: [present, ProviderConfigs]
    rpModel,   \* the model the client asked for
    rpResult,  \* what resolveProviderForAPIKey returned
    rpDone     \* the resolution has been made

rpVars == <<rpKey, rpModel, rpResult, rpDone>>

VARIABLES
    gwPc,        \* "idle", "handler", "credentials", "route", "streaming", "answered"
    gwKey,       \* the API key row loaded for the request
    gwReq,       \* the client's request: [model, stream]
    gwModel,     \* req.Model as the handler holds it
    gwProvider,  \* the provider kind the handler routes to
    gwStatus,    \* the HTTP status answered to the client (0: none yet)
    gwUpstream,  \* the upstream calls made: the HTTP status of each (0: no response)
    gwDecrypts,  \* number of DecryptAPIKey calls made
    gwState,     \* the stream state record of a streamed reply
    gwFrames,    \* the SSE frames written to the client
    gwBody,      \* the body of the upstream's buffered reply (<< >>: none)
    gwReply,     \* the buffered JSON body written to the client (<< >>: none)
    gwUsage,     \* the RecordUsage calls made, in order
    gwLines      \* number of upstream lines read by the pump loop

gwVars == <<gwPc, gwKey, gwReq, gwModel, gwProvider, gwStatus, gwUpstream,
            gwDecrypts, gwState, gwFrames, gwBody, gwReply, gwUsage, gwLines>>

\* GeminiToAnthropicRequest: the request, the second after which the clock
\* ticks (counted in contents), the converted request, whether it ran.
VARIABLES gcReq, gcTickAfter, gcOut, gcDone

gcVars == <<gcReq, gcTickAfter, gcOut, gcDone>>

\* The request converters' treatment of system messages: the OpenAI chat
\* request, the outbound requests of the two copies of
\* OpenAIToAnthropicRequest and of OpenAIToGeminiRequest, whether they ran.
VARIABLES srReq, srAnthropic, srAnthropicSecond, srGemini, srDone

srVars == <<srReq, srAnthropic, srAnthropicSecond, srGemini, srDone>>

\* ConfigService for one user: the provider_configs rows by id, the next
\* primary key, and for each request being handled its position in the
\* service method and that method's local values.
VARIABLES cfRows, cfNextID, cfPc, cfLocal

cfVars == <<cfRows, cfNextID, cfPc, cfLocal>>

\* The body of one streaming upstream response and its readers: the number
\* of lines the upstream has sent, the lines waiting in the body, the lines
\* held by the bufio.Reader of the StreamReader and those ReadString has
\* returned to the pump loop, and the same for the bufio.Reader of the
\* logging goroutine.
VARIABLES urSent, urBody, urPumpBuf, urPump, urLogBuf, urLogged

urVars == <<urSent, urBody, urPumpBuf, urPump, urLogBuf, urLogged>>

\* One call of a stream converter on a decoded upstream event: the
\* converter and its arguments, how the call ended, whether it was made.
VARIABLES pnCall, pnOutcome, pnDone

pnVars == <<pnCall, pnOutcome, pnDone>>

\* RecordUsage for one API key called by concurrent requests: the
\* usage_records rows, the key's counters, and for each request its position
\* in RecordUsage and the tokens it reports.
VARIABLES ruRecords, ruKey, ruPc, ruArgs

ruVars == <<ruRecords, ruKey, ruPc, ruArgs>>

vars == <<oaVars, crVars, gaVars, aoVars, raVars, hcVars, plVars, rpVars, gwVars, gcVars, srVars, cfVars, urVars, pnVars, ruVars>>

\* What an action of one component leaves alone: the other components.
otherThanOA == <<crVars, gaVars, aoVars, raVars, hcVars, plVars, rpVars, gwVars, gcVars, srVars, cfVars, urVars, pnVars, ruVars>>

otherThanCR == <<oaVars, gaVars, aoVars, raVars, hcVars, plVars, rpVars, gwVars, gcVars, srVars, cfVars, urVars, pnVars, ruVars>>

otherThanGA == <<oaVars, crVars, aoVars, raVars, hcVars, plVars, rpVars, gwVars, gcVars, srVars, cfVars, urVars, pnVars, ruVars>>

otherThanAO == <<oaVars, crVars, gaVars, raVars, hcVars, plVars, rpVars, gwVars, gcVars, srVars, cfVars, urVars, pnVars, ruVars>>

otherThanRA == <<oaVars, crVars, gaVars, aoVars, hcVars, plVars, rpVars, gwVars, gcVars, srVars, cfVars, urVars, pnVars, ruVars>>

otherThanHC == <<oaVars, crVars, gaVars, aoVars, raVars, plVars, rpVars, gwVars, gcVars, srVars, cfVars, urVars, pnVars, ruVars>>

otherThanPL == <<oaVars, crVars, gaVars, aoVars, raVars, hcVars, rpVars, gwVars, gcVars, srVars, cfVars, urVars, pnVars, ruVars>>

otherThanRP == <<oaVars, crVars, gaVars, aoVars, raVars, hcVars, plVars, gwVars, gcVars, srVars, cfVars, urVars, pnVars, ruVars>>

otherThanGW == <<oaVars, crVars, gaVars, aoVars, raVars, hcVars, plVars, rpVars, gcVars, srVars, cfVars, urVars, pnVars, ruVars>>

otherThanGC == <<oaVars, crVars, gaVars, aoVars, raVars, hcVars, plVars, rpVars, gwVars, srVars, cfVars, urVars, pnVars, ruVars>>

otherThanSR == <<oaVars, crVars, gaVars, aoVars, raVars, hcVars, plVars, rpVars, gwVars, gcVars, cfVars, urVars, pnVars, ruVars>>

otherThanCF == <<oaVars, crVars, gaVars, aoVars, raVars, hcVars, plVars, rpVars, gwVars, gcVars, srVars, urVars, pnVars, ruVars>>

otherThanUR == <<oaVars, crVars, gaVars, aoVars, raVars, hcVars, plVars, rpVars, gwVars, gcVars, srVars, cfVars, pnVars, ruVars>>

otherThanPN == <<oaVars, crVars, gaVars, aoVars, raVars, hcVars, plVars, rpVars, gwVars, gcVars, srVars, cfVars, urVars, ruVars>>

otherThanRU == <<oaVars, crVars, gaVars, aoVars, raVars, hcVars, plVars, rpVars, gwVars, gcVars, srVars, cfVars, urVars, pnVars>>

\* ------------------------------------------------------------- vocabulary
NoIndex == 0 - 1

EmptyStr == << >>

\* Outbound Anthropic SSE event (the JSON object the converter marshals).
AnthropicEvent(type, index, block, text, id, name, model, stop_reason) ==
    [type |-> type, index |-> index, block |-> block, text |-> text,
     id |-> id, name |-> name, model |-> model, stop_reason |-> stop_reason]

MessageStartEvent(id, model) ==
    AnthropicEvent("message_start", NoIndex, "", EmptyStr, id, "", model, "")

ContentBlockStartText(index) ==
    AnthropicEvent("content_block_start", index, "text", EmptyStr, "", "", "", "")

ContentBlockStartToolUse(index, id, name) ==
    AnthropicEvent("content_block_start", index, "tool_use", EmptyStr, id, name, "", "")

TextDeltaEvent(index, text) ==
    AnthropicEvent("content_block_delta", index, "text_delta", text, "", "", "", "")

InputJSONDeltaEvent(index, partial) ==
    AnthropicEvent("content_block_delta", index, "input_json_delta", partial, "", "", "", "")

ContentBlockStopEvent(index) ==
    AnthropicEvent("content_block_stop", index, "", EmptyStr, "", "", "", "")

MessageDeltaEvent(stop_reason) ==
    AnthropicEvent("message_delta", NoIndex, "", EmptyStr, "", "", "", stop_reason)

MessageStopEvent ==
    AnthropicEvent("message_stop", NoIndex, "", EmptyStr, "", "", "", "")

\* ------------------------------------------------------- helper operators
RECURSIVE ConcatText(_, _)
\* Concatenation, in order, of the text of the events of evs whose delta
\* kind is `block`.
ConcatText(evs, block) ==
    IF evs = << >> THEN << >>
    ELSE (IF Head(evs).type = "content_block_delta" /\ Head(evs).block = block
          THEN Head(evs).text ELSE << >>)
         \o ConcatText(Tail(evs), block)

HasEventOfType(evs, type) == \E i \in 1..Len(evs) : evs[i].type = type

\* =========================================================================
\* OpenAI Chat stream  ->  Anthropic stream
\* =========================================================================

\* NewOpenAIToAnthropicStreamState: the zero value of the state record.
NewOpenAIToAnthropicStreamState ==
    [contentBlockIndex |-> 0, contentBlockStarted |-> FALSE,
     currentBlockType |-> "", finishReason |-> "", finished |-> FALSE,
     startSent |-> FALSE]

mapFinishReason_StopUnmapped(finishReason) ==
    CASE finishReason = "length" -> "max_tokens"
      [] finishReason = "tool_calls" -> "tool_use"
      [] finishReason = "" -> "end_turn"
      [] OTHER -> finishReason

mapFinishReason(finishReason) ==
    CASE finishReason = "stop" -> "end_turn"
      [] finishReason = "length" -> "max_tokens"
      [] finishReason = "tool_calls" -> "tool_use"
      [] finishReason = "" -> "end_turn"
      [] OTHER -> finishReason

\* A conversion in progress: the state record and the events appended so far.
OAResult(st, ev) == [st |-> st, ev |-> ev]

\* if !state.startSent { ... message_start ...; state.startSent = true }
OAStart(data, st) ==
    IF ~st.startSent
    THEN OAResult([st EXCEPT !.startSent = TRUE],
                  <<MessageStartEvent(data.id, data.model)>>)
    ELSE OAResult(st, << >>)

OACloseOpenBlock_NoStopEvent(r) ==
    IF r.st.contentBlockStarted
    THEN OAResult([r.st EXCEPT !.contentBlockStarted = FALSE,
                               !.currentBlockType = ""],
                  r.ev)
    ELSE r

\* The two closing paths: content_block_stop for an open block, which
\* resets contentBlockStarted and currentBlockType.
OACloseOpenBlock(r) ==
    IF r.st.contentBlockStarted
    THEN OAResult([r.st EXCEPT !.contentBlockStarted = FALSE,
                               !.currentBlockType = ""],
                  Append(r.ev, ContentBlockStopEvent(r.st.contentBlockIndex)))
    ELSE r

OATerminal_NotLatched(r) ==
    OAResult(r.st,
             r.ev \o <<MessageDeltaEvent(mapFinishReason(r.st.finishReason)),
                       MessageStopEvent>>)

\* message_delta, message_stop, state.finished = true
OATerminal(r) ==
    OAResult([r.st EXCEPT !.finished = TRUE],
             r.ev \o <<MessageDeltaEvent(mapFinishReason(r.st.finishReason)),
                       MessageStopEvent>>)

OASwitchBlock_KeepsIndex(r) ==
    IF r.st.contentBlockStarted
    THEN OAResult(r.st,
                  Append(r.ev, ContentBlockStopEvent(r.st.contentBlockIndex)))
    ELSE r

\* A block switch: content_block_stop of the open block and index++.
OASwitchBlock(r) ==
    IF r.st.contentBlockStarted
    THEN OAResult([r.st EXCEPT !.contentBlockIndex = @ + 1],
                  Append(r.ev, ContentBlockStopEvent(r.st.contentBlockIndex)))
    ELSE r

\* Opening of a text block when none is open or the open one is not text.
OAOpenText(r) ==
    IF ~r.st.contentBlockStarted \/ r.st.currentBlockType # "text"
    THEN LET s == OASwitchBlock(r)
         IN OAResult([s.st EXCEPT !.contentBlockStarted = TRUE,
                                  !.currentBlockType = "text"],
                     Append(s.ev, ContentBlockStartText(s.st.contentBlockIndex)))
    ELSE r

OAContent_DropsOpeningDelta(r, content) ==
    IF content # EmptyStr
    THEN LET o == OAOpenText(r)
         IN IF o.ev = r.ev
            THEN OAResult(o.st, Append(o.ev, TextDeltaEvent(o.st.contentBlockIndex, content)))
            ELSE o
    ELSE r

\* if content, ok := delta["content"].(string); ok && content != "" { ... }
OAContent(r, content) ==
    IF content # EmptyStr
    THEN LET o == OAOpenText(r)
         IN OAResult(o.st, Append(o.ev, TextDeltaEvent(o.st.contentBlockIndex, content)))
    ELSE r

\* One entry of delta.tool_calls (one iteration of the loop body).
OAToolCall(r, tc) ==
    IF tc.id # ""
    THEN LET s == OASwitchBlock(r)
             opened == OAResult(
                 [s.st EXCEPT !.contentBlockStarted = TRUE,
                              !.currentBlockType = "tool_use"],
                 Append(s.ev, ContentBlockStartToolUse(s.st.contentBlockIndex,
                                                       tc.id, tc.name)))
         IN IF tc.arguments # EmptyStr
            THEN OAResult(opened.st,
                          Append(opened.ev,
                                 InputJSONDeltaEvent(opened.st.contentBlockIndex,
                                                     tc.arguments)))
            ELSE opened
    ELSE IF tc.arguments # EmptyStr /\ r.st.contentBlockStarted
            /\ r.st.currentBlockType = "tool_use"
         THEN OAResult(r.st,
                       Append(r.ev, InputJSONDeltaEvent(r.st.contentBlockIndex,
                                                        tc.arguments)))
         ELSE r

RECURSIVE OAToolCalls(_, _)
\* for _, tc := range toolCalls { ... }
OAToolCalls(r, toolCalls) ==
    IF toolCalls = << >> THEN r
    ELSE OAToolCalls(OAToolCall(r, Head(toolCalls)), Tail(toolCalls))

\* if delta != nil { content ...; tool_calls ... }
OADelta(r, choice) ==
    IF choice.hasDelta
    THEN OAToolCalls(OAContent(r, choice.content), choice.tool_calls)
    ELSE r

\* finish_reason latch of the current call.
OALatchFinishReason(r, choice) ==
    IF choice.finish_reason # ""
    THEN OAResult([r.st EXCEPT !.finishReason = choice.finish_reason], r.ev)
    ELSE r

\* if state.finishReason != "" { close block; message_delta; message_stop }
OAFinishIfLatched(r) ==
    IF r.st.finishReason # "" THEN OATerminal(OACloseOpenBlock(r)) ELSE r

OpenAIStreamToAnthropicStream_IgnoresFinished(data, state) ==
    LET started == OAStart(data, state)
    IN IF Len(data.choices) = 0
       THEN OATerminal(OACloseOpenBlock(started))
       ELSE LET choice == data.choices[1]
            IN OAFinishIfLatched(
                   OADelta(OALatchFinishReason(started, choice), choice))

\* OpenAIStreamToAnthropicStream(data, state): the events returned and the
\* state record after the call.
OpenAIStreamToAnthropicStream(data, state) ==
    LET started == OAStart(data, state)
    IN IF started.st.finished THEN started
       ELSE IF Len(data.choices) = 0
            THEN OATerminal(OACloseOpenBlock(started))
            ELSE LET choice == data.choices[1]
                 IN OAFinishIfLatched(
                        OADelta(OALatchFinishReason(started, choice), choice))

\* ------------------------------------------------------- upstream chunks
OAContents == { EmptyStr, <<"h", "i">> }

OAToolCallEntries ==
    { [id |-> "call_x", name |-> "f", arguments |-> EmptyStr],
      [id |-> "call_x", name |-> "f", arguments |-> <<"{">>],
      [id |-> "", name |-> "", arguments |-> <<"}">>],
      [id |-> "", name |-> "", arguments |-> EmptyStr] }

OAToolCallLists ==
    { << >> } \cup { <<e>> : e \in OAToolCallEntries }
        \cup { << [id |-> "call_x", name |-> "f", arguments |-> <<"{">>],
                  [id |-> "", name |-> "", arguments |-> <<"}">>] >> }

OAFinishReasons == { "", "stop", "length", "tool_calls" }

OAChoices ==
    [finish_reason : OAFinishReasons, hasDelta : {TRUE},
     content : OAContents, tool_calls : OAToolCallLists]
    \cup [finish_reason : OAFinishReasons, hasDelta : {FALSE},
          content : {EmptyStr}, tool_calls : {<< >>}]

OAChunks ==
    [id : {"c1"}, model : {"gpt-4"}, choices : { <<c>> : c \in OAChoices }]
    \cup [id : {""}, model : {""}, choices : { << >> }]

RECURSIVE ConcatArguments(_)
ConcatArguments(toolCalls) ==
    IF toolCalls = << >> THEN << >>
    ELSE Head(toolCalls).arguments \o ConcatArguments(Tail(toolCalls))

\* delta.content / delta.tool_calls[].function.arguments carried by a chunk.
ChunkContent(data) ==
    IF Len(data.choices) > 0 /\ data.choices[1].hasDelta
    THEN data.choices[1].content ELSE EmptyStr

ChunkArguments(data) ==
    IF Len(data.choices) > 0 /\ data.choices[1].hasDelta
    THEN ConcatArguments(data.choices[1].tool_calls) ELSE EmptyStr

OAInit ==
    /\ oaState = NewOpenAIToAnthropicStreamState
    /\ oaOut = << >>
    /\ oaLast = << >>
    /\ oaLastChunk = << >>
    /\ oaCalls = 0
    /\ oaStopped = FALSE
    /\ oaTextIn = << >>
    /\ oaTextInLive = << >>
    /\ oaArgsInLive = << >>

\* One call of the converter on the stream's state record.
OAFeed(data) ==
    /\ oaCalls < MaxChunks
    /\ LET r == OpenAIStreamToAnthropicStream(data, oaState)
       IN /\ oaState' = r.st
          /\ oaOut' = oaOut \o r.ev
          /\ oaLast' = r.ev
    /\ oaLastChunk' = <<data>>
    /\ oaCalls' = oaCalls + 1
    /\ oaStopped' = HasEventOfType(oaOut, "message_stop")
    /\ oaTextIn' = oaTextIn \o ChunkContent(data)
    /\ oaTextInLive' = IF oaState.finished THEN oaTextInLive
                       ELSE oaTextInLive \o ChunkContent(data)
    /\ oaArgsInLive' = IF oaState.finished THEN oaArgsInLive
                       ELSE oaArgsInLive \o ChunkArguments(data)
    /\ UNCHANGED otherThanOA

OAStep == \E data \in OAChunks : OAFeed(data)


\* =========================================================================
\* OpenAI Chat stream  ->  OpenAI Responses stream
\* =========================================================================

\* Outbound Responses SSE event.
ResponsesEvent(type, output_index, item_type, call_id, name, delta, status, reason) ==
    [type |-> type, output_index |-> output_index, item_type |-> item_type,
     call_id |-> call_id, name |-> name, delta |-> delta, status |-> status,
     reason |-> reason]

ResponseCreatedEvent ==
    ResponsesEvent("response.created", NoIndex, "", "", "", EmptyStr, "in_progress", "")

MessageItemAddedEvent ==
    ResponsesEvent("response.output_item.added", 0, "message", "", "", EmptyStr, "", "")

ContentPartAddedEvent ==
    ResponsesEvent("response.content_part.added", 0, "output_text", "", "", EmptyStr, "", "")

OutputTextDeltaEvent(content) ==
    ResponsesEvent("response.output_text.delta", 0, "", "", "", content, "", "")

FunctionCallItemAddedEvent(index, callID, name) ==
    ResponsesEvent("response.output_item.added", index, "function_call", callID, name,
                   EmptyStr, "", "")

FunctionCallArgumentsDeltaEvent(index, arguments) ==
    ResponsesEvent("response.function_call_arguments.delta", index, "", "", "",
                   arguments, "", "")

OutputItemDoneEvent(index) ==
    ResponsesEvent("response.output_item.done", index, "", "", "", EmptyStr, "", "")

ResponseCompletedEvent(status, reason) ==
    ResponsesEvent("response.completed", NoIndex, "", "", "", EmptyStr, status, reason)

\* The empty map[string]int.
EmptyToolCallIndices == [k \in {} |-> 0]

\* NewOpenAIChatToResponsesStreamState(model)
NewOpenAIChatToResponsesStreamState(model) ==
    [responseID |-> "", model |-> model, created |-> FALSE,
     messageStarted |-> FALSE, nextOutputIndex |-> 1,
     toolCallIndices |-> EmptyToolCallIndices]

CRResult(st, ev) == [st |-> st, ev |-> ev]

\* fmt.Sprintf("resp_%d", time.Now().UnixNano()): some id with that prefix.
SynthesizedResponseID == "resp_nanos"

\* responseID and model are taken from the first chunk that names them.
CRIdentity(chunk, st) ==
    LET withID == IF st.responseID = ""
                  THEN [st EXCEPT !.responseID =
                           IF chunk.id # "" THEN chunk.id ELSE SynthesizedResponseID]
                  ELSE st
    IN IF withID.model = "" /\ chunk.model # ""
       THEN [withID EXCEPT !.model = chunk.model]
       ELSE withID

\* response.created once, then the message item and its content part once.
CRPreamble(r) ==
    LET c == IF ~r.st.created
             THEN CRResult([r.st EXCEPT !.created = TRUE],
                           Append(r.ev, ResponseCreatedEvent))
             ELSE r
    IN IF ~c.st.messageStarted
       THEN CRResult([c.st EXCEPT !.messageStarted = TRUE],
                     c.ev \o <<MessageItemAddedEvent, ContentPartAddedEvent>>)
       ELSE c

\* callID of a tool-call delta: its id, or "call_<nextOutputIndex>".
CRCallID(st, tc) ==
    IF tc.id # "" THEN tc.id ELSE "call_" \o ToString(st.nextOutputIndex)

\* One entry of choice.Delta.ToolCalls (one iteration of the loop body).
CRToolCall(r, tc) ==
    LET callID == CRCallID(r.st, tc)
        known == callID \in DOMAIN r.st.toolCallIndices
        index == IF known THEN r.st.toolCallIndices[callID]
                 ELSE r.st.nextOutputIndex
        added ==
            IF known THEN r
            ELSE CRResult(
                   [r.st EXCEPT
                      !.toolCallIndices =
                          [k \in DOMAIN r.st.toolCallIndices \cup {callID} |->
                              IF k = callID THEN index
                              ELSE r.st.toolCallIndices[k]],
                      !.nextOutputIndex = @ + 1],
                   Append(r.ev, FunctionCallItemAddedEvent(index, callID, tc.name)))
    IN IF tc.arguments # EmptyStr
       THEN CRResult(added.st,
                     Append(added.ev,
                            FunctionCallArgumentsDeltaEvent(index, tc.arguments)))
       ELSE added

RECURSIVE CRToolCalls(_, _)
CRToolCalls(r, toolCalls) ==
    IF toolCalls = << >> THEN r
    ELSE CRToolCalls(CRToolCall(r, Head(toolCalls)), Tail(toolCalls))

\* if choice.Delta != nil { text delta; tool calls }
CRDelta(r, choice) ==
    IF choice.hasDelta
    THEN CRToolCalls(
            IF choice.content # EmptyStr
            THEN CRResult(r.st, Append(r.ev, OutputTextDeltaEvent(choice.content)))
            ELSE r,
            choice.tool_calls)
    ELSE r

\* `order` enumerates the keys of toolCallIndices in the order in which the
\* range over the map visits them.
CRItemsDone(r, order) ==
    CRResult(r.st,
             r.ev \o (IF r.st.messageStarted THEN <<OutputItemDoneEvent(0)>> ELSE << >>)
                  \o [i \in 1..Len(order) |->
                        OutputItemDoneEvent(r.st.toolCallIndices[order[i]])])

\* if choice.FinishReason != nil && *choice.FinishReason != "" { ... }
CRFinish(r, choice, order) ==
    IF choice.finish_reason # ""
    THEN LET done == CRItemsDone(r, order)
         IN CRResult(done.st,
                     Append(done.ev,
                            IF choice.finish_reason = "length"
                            THEN ResponseCompletedEvent("incomplete", "max_output_tokens")
                            ELSE ResponseCompletedEvent("completed", "")))
    ELSE r

\* The orders in which a range over the map m can visit its keys.
MapIterationOrders(m) ==
    { o \in [1..Cardinality(DOMAIN m) -> DOMAIN m] :
        \A i, j \in 1..Cardinality(DOMAIN m) : o[i] = o[j] => i = j }

\* OpenAIChatStreamToOpenAIResponsesStream(chunk, state): the set of results
\* (events, state) the call can return.
OpenAIChatStreamToOpenAIResponsesStream(chunk, state) ==
    IF Len(chunk.choices) = 0
    THEN { CRResult(state, << >>) }
    ELSE LET choice == chunk.choices[1]
             body == CRDelta(CRPreamble(CRResult(CRIdentity(chunk, state), << >>)),
                             choice)
         IN { CRFinish(body, choice, order) :
                order \in MapIterationOrders(body.st.toolCallIndices) }

\* ------------------------------------------------------- upstream chunks
CRToolCallLists ==
    { << [id |-> "call_x", name |-> "f", arguments |-> EmptyStr] >>,
      << [id |-> "", name |-> "", arguments |-> <<"{">>] >>,
      << [id |-> "call_x", name |-> "", arguments |-> <<"}">>] >>,
      << [id |-> "call_y", name |-> "g", arguments |-> <<"{">>],
         [id |-> "", name |-> "", arguments |-> <<"}">>] >> }

CRChoices ==
    [finish_reason : {"", "tool_calls"}, hasDelta : {TRUE},
     content : {EmptyStr}, tool_calls : CRToolCallLists]
    \cup [finish_reason : {"", "length"}, hasDelta : {TRUE},
          content : { <<"h", "i">> }, tool_calls : { << >> }]
    \cup [finish_reason : {"", "tool_calls", "length"}, hasDelta : {FALSE},
          content : {EmptyStr}, tool_calls : { << >> }]

CRChunks ==
    [id : {"chatcmpl-1"}, model : {"gpt-4"}, choices : { <<c>> : c \in CRChoices }]
    \cup [id : {""}, model : {""}, choices : { << >> }]

CRInit ==
    /\ crState = NewOpenAIChatToResponsesStreamState("client-model")
    /\ crPrev = crState
    /\ crOut = << >>
    /\ crLast = << >>
    /\ crLastChunk = << >>
    /\ crCalls = 0
    /\ crCompleted = FALSE

CRFeed(chunk) ==
    /\ crCalls < MaxResponsesChunks
    /\ \E r \in OpenAIChatStreamToOpenAIResponsesStream(chunk, crState) :
          /\ crState' = r.st
          /\ crOut' = crOut \o r.ev
          /\ crLast' = r.ev
    /\ crPrev' = crState
    /\ crLastChunk' = <<chunk>>
    /\ crCalls' = crCalls + 1
    /\ crCompleted' = \E i \in 1..Len(crOut) : crOut[i].type = "response.completed"
    /\ UNCHANGED otherThanCR

CRStep == \E chunk \in CRChunks : CRFeed(chunk)


\* =========================================================================
\* Gemini stream  ->  Anthropic stream
\* =========================================================================

\* generateID(): some fresh message id.
GeneratedMessageID == "msg_generated"

\* switch fr { case "STOP": ...; case "MAX_TOKENS": ...; default: ... }
GAFinishStopReason(fr) ==
    CASE fr = "STOP" -> "end_turn"
      [] fr = "MAX_TOKENS" -> "max_tokens"
      [] OTHER -> "end_turn"

\* if isFirst { message_start; content_block_start(0, text) }
GAOpening(isFirst, model) ==
    IF isFirst
    THEN <<MessageStartEvent(GeneratedMessageID, model), ContentBlockStartText(0)>>
    ELSE << >>

\* part := parts[0]; if text, ok := part["text"].(string); ok { text_delta }
GAPartDelta(part) ==
    IF part.hasText THEN <<TextDeltaEvent(0, part.text)>> ELSE << >>

\* if fr, ok := candidate["finishReason"].(string); ok && fr != "" { ... }
GAFinish(fr) ==
    IF fr # ""
    THEN <<ContentBlockStopEvent(0), MessageDeltaEvent(GAFinishStopReason(fr)),
           MessageStopEvent>>
    ELSE << >>

\* GeminiStreamToAnthropicStream(data, isFirst, model): the events returned.
GeminiStreamToAnthropicStream(data, isFirst, model) ==
    IF ~data.hasCandidates THEN << >>
    ELSE IF ~data.hasContent THEN << >>
    ELSE IF Len(data.parts) = 0 THEN << >>
    ELSE GAOpening(isFirst, model) \o GAPartDelta(data.parts[1])
             \o GAFinish(data.finishReason)

\* ------------------------------------------------------- upstream events
GAParts ==
    { << >>,
      << [hasText |-> TRUE, text |-> <<"h", "i">>] >>,
      << [hasText |-> FALSE, text |-> EmptyStr] >> }

GAFinishReasons == { "", "STOP", "MAX_TOKENS", "SAFETY" }

GAEvents ==
    [hasCandidates : {TRUE}, hasContent : {TRUE}, parts : GAParts,
     finishReason : GAFinishReasons]
    \cup [hasCandidates : {TRUE}, hasContent : {FALSE}, parts : { << >> },
          finishReason : {"", "STOP"}]
    \cup [hasCandidates : {FALSE}, hasContent : {FALSE}, parts : { << >> },
          finishReason : {""}]

\* The model name the handler was called with.
GAModel == "claude-client"

GAInit ==
    /\ gaPc = "reading"
    /\ gaIsFirst = TRUE
    /\ gaOut = << >>
    /\ gaLast = << >>
    /\ gaLastEvent = << >>
    /\ gaTextBefore = FALSE
    /\ gaLines = 0

GATextWritten ==
    \E i \in 1..Len(gaOut) :
        gaOut[i].type = "content_block_delta" /\ gaOut[i].block = "text_delta"

GARead ==
    /\ gaPc = "reading"
    /\ gaLines < MaxGeminiLines
    /\ gaLines' = gaLines + 1
    /\ gaTextBefore' = GATextWritten
    /\ UNCHANGED otherThanGA

\* A data line holding a JSON object: convert, write the events, isFirst = false.
GADataLine(data) ==
    /\ GARead
    /\ LET events == GeminiStreamToAnthropicStream(data, gaIsFirst, GAModel)
       IN /\ gaOut' = gaOut \o events
          /\ gaLast' = events
    /\ gaLastEvent' = <<data>>
    /\ gaIsFirst' = FALSE
    /\ UNCHANGED gaPc

\* A blank line, an "event:" line, a line without the data: prefix, or a
\* data line that is not valid JSON: continue.
GASkippedLine ==
    /\ GARead
    /\ gaLast' = << >>
    /\ gaLastEvent' = << >>
    /\ UNCHANGED <<gaPc, gaIsFirst, gaOut>>

\* "data: [DONE]" or end of stream: break, return nil.
GAEndOfStream ==
    /\ GARead
    /\ gaPc' = "returned"
    /\ gaLast' = << >>
    /\ gaLastEvent' = << >>
    /\ UNCHANGED <<gaIsFirst, gaOut>>

\* A read error other than io.EOF: return err.
GAReadError ==
    /\ GARead
    /\ gaPc' = "failed"
    /\ gaLast' = << >>
    /\ gaLastEvent' = << >>
    /\ UNCHANGED <<gaIsFirst, gaOut>>

streamAnthropicFromGemini ==
    \/ \E data \in GAEvents : GADataLine(data)
    \/ GASkippedLine
    \/ GAEndOfStream
    \/ GAReadError

\* =========================================================================
\* Anthropic response  ->  OpenAI Chat response (buffered)
\* =========================================================================

RECURSIVE MarshalMembers(_)
\* The members of a JSON object, given as a sequence of <<key, value>> pairs
\* with integer values.
MarshalMembers(pairs) ==
    IF pairs = << >> THEN << >>
    ELSE << "\"", pairs[1][1], "\"", ":", ToString(pairs[1][2]) >>
         \o (IF Len(pairs) > 1 THEN <<",">> ELSE << >>)
         \o MarshalMembers(Tail(pairs))

\* json.Marshal(blockMap["input"]): "null" for a missing input, else the
\* object's JSON text.
MarshalInput(input) ==
    IF ~input.present THEN <<"n", "u", "l", "l">>
    ELSE <<"{">> \o MarshalMembers(input.members) \o <<"}">>

AOFinishReason_ToolCallsOverride(resp) ==
    IF resp.content.kind = "blocks"
       /\ \E i \in 1..Len(resp.content.blocks) : resp.content.blocks[i].type = "tool_use"
    THEN "tool_calls"
    ELSE IF ~resp.hasStopReason THEN ""
    ELSE CASE resp.stop_reason = "end_turn" -> "stop"
           [] resp.stop_reason = "max_tokens" -> "length"
           [] resp.stop_reason = "tool_use" -> "tool_calls"
           [] OTHER -> resp.stop_reason

\* var finishReason string; if stopReason, ok := resp["stop_reason"].(string); ok { switch ... }
AOFinishReason(resp) ==
    IF ~resp.hasStopReason THEN ""
    ELSE CASE resp.stop_reason = "end_turn" -> "stop"
           [] resp.stop_reason = "max_tokens" -> "length"
           [] resp.stop_reason = "tool_use" -> "tool_calls"
           [] OTHER -> resp.stop_reason

RECURSIVE AOTextContent(_)
\* textContent += text of every text block
AOTextContent(blocks) ==
    IF blocks = << >> THEN << >>
    ELSE (IF Head(blocks).type = "text" THEN Head(blocks).text ELSE << >>)
         \o AOTextContent(Tail(blocks))

RECURSIVE AOToolCallsOf(_)
\* toolCalls = append(toolCalls, ...) for every tool_use block
AOToolCallsOf(blocks) ==
    IF blocks = << >> THEN << >>
    ELSE (IF Head(blocks).type = "tool_use"
          THEN << [id |-> Head(blocks).id, type |-> "function",
                   name |-> Head(blocks).name,
                   arguments |-> MarshalInput(Head(blocks).input)] >>
          ELSE << >>)
         \o AOToolCallsOf(Tail(blocks))

\* The assistant message built from resp["content"].
AOMessage(content) ==
    LET text == CASE content.kind = "string" -> content.text
                  [] content.kind = "blocks" -> AOTextContent(content.blocks)
                  [] OTHER -> << >>
        calls == IF content.kind = "blocks" THEN AOToolCallsOf(content.blocks) ELSE << >>
    IN [role |-> "assistant", hasContent |-> text # << >>, content |-> text,
        tool_calls |-> calls]

\* Absent usage stays nil; otherwise prompt, completion and total tokens.
AOUsage(resp) ==
    IF resp.hasUsage
    THEN << [prompt_tokens |-> resp.usage.input_tokens,
             completion_tokens |-> resp.usage.output_tokens,
             total_tokens |-> resp.usage.input_tokens + resp.usage.output_tokens] >>
    ELSE << >>

\* AnthropicToOpenAIResponse(resp, model)
AnthropicToOpenAIResponse(resp, model) ==
    [id |-> resp.id, object |-> "chat.completion", model |-> model,
     message |-> AOMessage(resp.content),
     finish_reason |-> AOFinishReason(resp),
     usage |-> AOUsage(resp)]

\* ---------------------------------------------------- upstream responses
NoInput == [present |-> FALSE, members |-> << >>]

AOBlocks ==
    { [type |-> "text", text |-> <<"h", "e", "l", "l", "o">>, id |-> "", name |-> "",
       input |-> NoInput],
      [type |-> "tool_use", text |-> EmptyStr, id |-> "t1", name |-> "calc",
       input |-> [present |-> TRUE, members |-> << <<"x", 2>> >>]],
      [type |-> "tool_use", text |-> EmptyStr, id |-> "t2", name |-> "noargs",
       input |-> NoInput],
      [type |-> "thinking", text |-> EmptyStr, id |-> "", name |-> "",
       input |-> NoInput] }

AOContents ==
    { [kind |-> "absent", text |-> EmptyStr, blocks |-> << >>],
      [kind |-> "string", text |-> <<"h", "i">>, blocks |-> << >>] }
    \cup { [kind |-> "blocks", text |-> EmptyStr, blocks |-> bs] :
             bs \in { << >> } \cup { <<b>> : b \in AOBlocks }
                      \cup { <<b1, b2>> : b1 \in AOBlocks, b2 \in AOBlocks } }

AOStopReasons == { "end_turn", "max_tokens", "tool_use", "stop_sequence" }

AOResponses ==
    [id : {"a1"}, content : AOContents, hasStopReason : {TRUE},
     stop_reason : AOStopReasons, hasUsage : {TRUE},
     usage : { [input_tokens |-> 2, output_tokens |-> 3] }]
    \cup [id : {"a1"}, content : AOContents, hasStopReason : {FALSE},
          stop_reason : {""}, hasUsage : {FALSE},
          usage : { [input_tokens |-> 0, output_tokens |-> 0] }]

\* The model name the client asked for.
AOClientModel == "gpt"

AOInit ==
    /\ aoDone = FALSE
    /\ aoResp = << >>
    /\ aoResult = << >>

\* One buffered conversion.
AOConvert(resp) ==
    /\ aoResp' = resp
    /\ aoResult' = AnthropicToOpenAIResponse(resp, AOClientModel)
    /\ aoDone' = TRUE
    /\ UNCHANGED otherThanAO

AOStep == \E resp \in AOResponses : AOConvert(resp)

\* =========================================================================
\* OpenAI Responses stream  ->  Anthropic stream (handler and converter)
\* =========================================================================

\* An upstream Responses stream event (the decoded JSON object of a data line).
ResponsesStreamEvent(type, output_index, item_type, delta, id, name, model, status, output) ==
    [type |-> type, output_index |-> output_index, item_type |-> item_type,
     delta |-> delta, id |-> id, name |-> name, model |-> model,
     status |-> status, output |-> output]

\* case "response.output_item.added": a block for a message or function_call
\* item, nothing for any other item type.
RAOutputItemAdded(data) ==
    CASE data.item_type = "message" ->
           << ContentBlockStartText(data.output_index) >>
      [] data.item_type = "function_call" ->
           << ContentBlockStartToolUse(data.output_index, data.id, data.name) >>
      [] OTHER -> << >>

\* case "response.completed": stop reason from response.status, overridden
\* by a function_call item of response.output; message_delta, message_stop.
RACompleted(data) ==
    LET byStatus == CASE data.status = "completed" -> "end_turn"
                      [] data.status = "incomplete" -> "max_tokens"
                      [] OTHER -> "end_turn"
        stopReason ==
            IF \E i \in 1..Len(data.output) : data.output[i] = "function_call"
            THEN "tool_use" ELSE byStatus
    IN << MessageDeltaEvent(stopReason), MessageStopEvent >>

\* The converter keeps no state: the events depend on the data object alone
\* (isFirst is not read).
OpenAIResponsesStreamToAnthropicStream(data, isFirst) ==
    CASE data.type = "response.created" ->
           << MessageStartEvent(data.id, data.model) >>
      [] data.type = "response.output_item.added" -> RAOutputItemAdded(data)
      [] data.type = "response.content_part.added" ->
           << ContentBlockStartText(data.output_index) >>
      [] data.type = "response.output_text.delta" ->
           IF data.delta # EmptyStr
           THEN << TextDeltaEvent(data.output_index, data.delta) >> ELSE << >>
      [] data.type = "response.function_call_arguments.delta" ->
           IF data.delta # EmptyStr
           THEN << InputJSONDeltaEvent(data.output_index, data.delta) >> ELSE << >>
      [] data.type = "response.output_item.done" ->
           << ContentBlockStopEvent(data.output_index) >>
      [] data.type = "response.completed" -> RACompleted(data)
      [] OTHER -> << >>

\* The upstream events fed to the pump loop.
RAEvents ==
    { ResponsesStreamEvent("response.created", 0, "", EmptyStr, "resp_1", "",
                           "gpt-4o", "", << >>),
      ResponsesStreamEvent("response.in_progress", 0, "", EmptyStr, "", "", "",
                           "", << >>),
      ResponsesStreamEvent("response.output_item.added", 0, "message", EmptyStr,
                           "", "", "", "", << >>),
      ResponsesStreamEvent("response.output_item.added", 0, "reasoning", EmptyStr,
                           "", "", "", "", << >>),
      ResponsesStreamEvent("response.output_item.added", 1, "function_call",
                           EmptyStr, "call_a", "f", "", "", << >>),
      ResponsesStreamEvent("response.content_part.added", 0, "", EmptyStr,
                           "", "", "", "", << >>),
      ResponsesStreamEvent("response.output_text.delta", 0, "", <<"h", "i">>,
                           "", "", "", "", << >>),
      ResponsesStreamEvent("response.output_text.delta", 0, "", EmptyStr,
                           "", "", "", "", << >>),
      ResponsesStreamEvent("response.function_call_arguments.delta", 1, "",
                           <<"{">>, "", "", "", "", << >>),
      ResponsesStreamEvent("response.output_item.done", 0, "", EmptyStr,
                           "", "", "", "", << >>),
      ResponsesStreamEvent("response.output_item.done", 1, "", EmptyStr,
                           "", "", "", "", << >>),
      ResponsesStreamEvent("response.completed", 0, "", EmptyStr, "", "", "",
                           "completed", <<"message">>),
      ResponsesStreamEvent("response.completed", 0, "", EmptyStr, "", "", "",
                           "incomplete", <<"message">>),
      ResponsesStreamEvent("response.completed", 0, "", EmptyStr, "", "", "",
                           "completed", <<"message", "function_call">>) }

\* One SSE frame: the "event:" line and the JSON object of the "data:" line.
SSEFrame(event, data) == [event |-> event, data |-> data]

RECURSIVE MessageFrames(_)
\* c.Response().Write("event: message\ndata: "), the event, "\n\n": one frame
\* per event, each under the event name "message".
MessageFrames(events) ==
    IF events = << >> THEN << >>
    ELSE << SSEFrame("message", Head(events)) >> \o MessageFrames(Tail(events))

RAInit ==
    /\ raPc = "reading"
    /\ raFrames = << >>
    /\ raIn = << >>
    /\ raLines = 0

\* line, err := reader.ReadString('\n')
RARead ==
    /\ raPc = "reading"
    /\ raLines < MaxResponsesLines
    /\ raLines' = raLines + 1
    /\ UNCHANGED otherThanRA

\* A data line holding a JSON object: convert, write one frame per event.
\* The flag passed as isFirst is not read by the converter.
RADataLine(data) ==
    /\ RARead
    /\ \E isFirst \in BOOLEAN :
         raFrames' = raFrames
                     \o MessageFrames(OpenAIResponsesStreamToAnthropicStream(data, isFirst))
    /\ raIn' = Append(raIn, data)
    /\ UNCHANGED raPc

\* A blank line, a line without the data: prefix, or a data line that is
\* not valid JSON: continue.
RASkippedLine ==
    /\ RARead
    /\ UNCHANGED <<raPc, raFrames, raIn>>

\* "data: [DONE]" or end of stream: break, return nil.
RAEndOfStream ==
    /\ RARead
    /\ raPc' = "returned"
    /\ UNCHANGED <<raFrames, raIn>>

\* A read error other than io.EOF: return err.
RAReadError ==
    /\ RARead
    /\ raPc' = "failed"
    /\ UNCHANGED <<raFrames, raIn>>

streamAnthropicFromOpenAIResponses ==
    \/ \E data \in RAEvents : RADataLine(data)
    \/ RASkippedLine
    \/ RAEndOfStream
    \/ RAReadError

\* =========================================================================
\* OpenAI Chat stream  ->  Anthropic stream (handler)
\* =========================================================================

HCInit ==
    /\ hcPc = "reading"
    /\ hcState = NewOpenAIToAnthropicStreamState
    /\ hcFrames = << >>
    /\ hcEnd = ""
    /\ hcLines = 0
    /\ hcSkipped = 0
    /\ hcLateCalls = 0

\* line, err := reader.ReadString('\n')
HCRead ==
    /\ hcPc = "reading"
    /\ hcLines < MaxChatLines
    /\ hcLines' = hcLines + 1
    /\ UNCHANGED otherThanHC

\* A data line holding a JSON object: convert on the stream's state record,
\* write one frame per event.
HCDataLine(data) ==
    /\ HCRead
    /\ LET r == OpenAIStreamToAnthropicStream(data, hcState)
       IN /\ hcState' = r.st
          /\ hcFrames' = hcFrames \o MessageFrames(r.ev)
    /\ hcLateCalls' = IF hcState.finished THEN hcLateCalls + 1 ELSE hcLateCalls
    /\ UNCHANGED <<hcPc, hcEnd, hcSkipped>>

HCSkippedLine_LeavesLoop ==
    /\ HCRead
    /\ hcSkipped' = hcSkipped + 1
    /\ hcPc' = "returned"
    /\ UNCHANGED <<hcState, hcFrames, hcEnd, hcLateCalls>>

\* A blank line, an "event:" line, a line without the data: prefix, or a
\* data line that is not valid JSON: continue.
HCSkippedLine ==
    /\ HCRead
    /\ hcSkipped' = hcSkipped + 1
    /\ UNCHANGED <<hcPc, hcState, hcFrames, hcEnd, hcLateCalls>>

\* if data == "[DONE]" { break }: the converter is not called.
HCDone ==
    /\ HCRead
    /\ hcPc' = "returned"
    /\ hcEnd' = "done"
    /\ UNCHANGED <<hcState, hcFrames, hcSkipped, hcLateCalls>>

\* io.EOF: break, return nil.
HCEndOfStream ==
    /\ HCRead
    /\ hcPc' = "returned"
    /\ hcEnd' = "eof"
    /\ UNCHANGED <<hcState, hcFrames, hcSkipped, hcLateCalls>>

\* A read error other than io.EOF: return err.
HCReadError ==
    /\ HCRead
    /\ hcPc' = "failed"
    /\ hcEnd' = "error"
    /\ UNCHANGED <<hcState, hcFrames, hcSkipped, hcLateCalls>>

streamAnthropicFromOpenAIChat ==
    \/ \E data \in OAChunks : HCDataLine(data)
    \/ HCSkippedLine
    \/ HCDone
    \/ HCEndOfStream
    \/ HCReadError

\* =========================================================================
\* Pump loops that write "data:" frames (OpenAI Chat and Gemini shapes)
\* =========================================================================

PumpHandlers ==
    { "streamOpenAIFromAnthropic", "streamOpenAIFromGemini",
      "streamGeminiFromOpenAI" }

\* The handler writes "data: [DONE]\n\n" before it breaks on an upstream
\* "data: [DONE]" line.
WritesDoneOnUpstreamDone(handler) ==
    handler \in { "streamOpenAIFromAnthropic", "streamOpenAIFromGemini" }

\* The handler writes "data: [DONE]\n\n" after the loop, before return nil.
WritesDoneAfterLoop(handler) == handler = "streamOpenAIFromGemini"

\* The frame "data: [DONE]\n\n".
DoneFrame == [kind |-> "done"]

\* The frame "data: " + chunk + "\n\n" of a converted chunk.
ChunkFrame == [kind |-> "chunk"]

\* The frames written once the loop is left by break.
PLFramesAfterLoop(handler) ==
    IF WritesDoneAfterLoop(handler) THEN << DoneFrame >> ELSE << >>

PLInit ==
    /\ plHandler = ""
    /\ plPc = "idle"
    /\ plFrames = << >>
    /\ plEnd = ""
    /\ plLines = 0

\* The router calls one of the handlers; the response header is written.
PLCall(handler) ==
    /\ plPc = "idle"
    /\ plHandler' = handler
    /\ plPc' = "reading"
    /\ UNCHANGED <<plFrames, plEnd, plLines>>
    /\ UNCHANGED otherThanPL

\* line, err := reader.ReadString('\n')
PLRead ==
    /\ plPc = "reading"
    /\ plLines < MaxPumpLines
    /\ plLines' = plLines + 1
    /\ UNCHANGED <<plHandler, otherThanPL>>

\* A data line holding a JSON object for which the converter returns a chunk.
PLDataLine ==
    /\ PLRead
    /\ plFrames' = Append(plFrames, ChunkFrame)
    /\ UNCHANGED <<plPc, plEnd>>

\* A blank line, an "event:" line, a data line that is not valid JSON, or
\* one for which the converter returns nil or an error: continue.
PLSkippedLine ==
    /\ PLRead
    /\ UNCHANGED <<plPc, plFrames, plEnd>>

\* if data == "[DONE]" { ...; break }, then the code after the loop.
PLDone ==
    /\ PLRead
    /\ plFrames' = plFrames
                   \o (IF WritesDoneOnUpstreamDone(plHandler)
                       THEN << DoneFrame >> ELSE << >>)
                   \o PLFramesAfterLoop(plHandler)
    /\ plPc' = "returned"
    /\ plEnd' = "done"

\* io.EOF: break, then the code after the loop.
PLEndOfStream ==
    /\ PLRead
    /\ plFrames' = plFrames \o PLFramesAfterLoop(plHandler)
    /\ plPc' = "returned"
    /\ plEnd' = "eof"

\* A read error other than io.EOF: return err.
PLReadError ==
    /\ PLRead
    /\ plPc' = "failed"
    /\ plEnd' = "error"
    /\ UNCHANGED plFrames

PumpLoop ==
    \/ \E handler \in PumpHandlers : PLCall(handler)
    \/ PLDataLine
    \/ PLSkippedLine
    \/ PLDone
    \/ PLEndOfStream
    \/ PLReadError

\* =========================================================================
\* Provider resolution for a gateway API key
\* =========================================================================

\* strings.HasPrefix on strings held as sequences of characters.
HasPrefix(str, prefix) ==
    /\ Len(str) >= Len(prefix)
    /\ SubSeq(str, 1, Len(prefix)) = prefix

\* getTargetProvider: the provider kind named by a built-in model prefix,
\* "" when the model has none.
getTargetProvider(model) ==
    IF \/ HasPrefix(model, <<"g", "p", "t", "-">>)
       \/ HasPrefix(model, <<"o", "1", "-">>)
       \/ HasPrefix(model, <<"o", "3", "-">>)
    THEN "openai"
    ELSE IF HasPrefix(model, <<"c", "l", "a", "u", "d", "e", "-">>)
         THEN "anthropic"
         ELSE IF HasPrefix(model, <<"g", "e", "m", "i", "n", "i", "-">>)
              THEN "gemini"
              ELSE ""

\* The ModelCodes column of a config: the empty string, the JSON text of a
\* list of model codes, or text that does not parse as one.
StoredModelCodes(kind, codes) == [kind |-> kind, codes |-> codes]

\* GetModelCodes(cfg): an empty list for the empty string, an error when
\* the JSON does not parse, the parsed list otherwise.
GetModelCodes(cfg) ==
    CASE cfg.ModelCodes.kind = "empty" -> [err |-> FALSE, codes |-> << >>]
      [] cfg.ModelCodes.kind = "invalid" -> [err |-> TRUE, codes |-> << >>]
      [] OTHER -> [err |-> FALSE, codes |-> cfg.ModelCodes.codes]

\* for _, modelCode := range modelCodes { if modelCode == model {
RPListsModel(cfg, model) ==
    LET got == GetModelCodes(cfg)
    IN /\ ~got.err
       /\ \E k \in 1..Len(got.codes) : got.codes[k] = model

RPLastMatch(configs, model) ==
    LET matching == { i \in 1..Len(configs) :
                        configs[i].IsActive /\ RPListsModel(configs[i], model) }
    IN IF matching = {} THEN 0
       ELSE CHOOSE i \in matching : \A j \in matching : j <= i

\* The loop over apiKey.ProviderConfigs: the index of the config at which
\* it returns, 0 if it runs to the end.
RPFirstMatch(configs, model) ==
    LET matching == { i \in 1..Len(configs) :
                        configs[i].IsActive /\ RPListsModel(configs[i], model) }
    IN IF matching = {} THEN 0
       ELSE CHOOSE i \in matching : \A j \in matching : i <= j

\* firstActive after the loop: the index of the first active config, 0 for nil.
RPFirstActive(configs) ==
    LET active == { i \in 1..Len(configs) : configs[i].IsActive }
    IN IF active = {} THEN 0
       ELSE CHOOSE i \in active : \A j \in active : i <= j

RPResolvedModel_KeepsRequested(cfg, model) == model

\* resolvedModel := model; modelCodes[0] when GetModelCodes(firstActive)
\* gives a non-empty list without error.
RPResolvedModel(cfg, model) ==
    LET got == GetModelCodes(cfg)
    IN IF ~got.err /\ Len(got.codes) > 0 THEN got.codes[1] ELSE model

\* A returned *resolvedProvider; Config is the index of the config pointed to.
ResolvedProvider(provider, model, config, matched) ==
    [kind |-> "resolved", Provider |-> provider, Model |-> model,
     Config |-> config, Matched |-> matched, err |-> ""]

\* return nil, nil
RPNil ==
    [kind |-> "nil", Provider |-> "", Model |-> << >>, Config |-> 0,
     Matched |-> FALSE, err |-> ""]

\* return nil, fmt.Errorf(...)
RPError(message) ==
    [kind |-> "error", Provider |-> "", Model |-> << >>, Config |-> 0,
     Matched |-> FALSE, err |-> message]

RPMatched_LastCode(configs, i, model) ==
    ResolvedProvider(configs[i].Provider,
                     configs[i].ModelCodes.codes[Len(configs[i].ModelCodes.codes)],
                     i, TRUE)

\* return &resolvedProvider{cfg.Provider, model, cfg, true}
RPMatched(configs, i, model) ==
    ResolvedProvider(configs[i].Provider, model, i, TRUE)

\* return &resolvedProvider{firstActive.Provider, resolvedModel, firstActive, false}
RPDefaulted(configs, i, model) ==
    ResolvedProvider(configs[i].Provider, RPResolvedModel(configs[i], model),
                     i, FALSE)

resolveProviderForAPIKey_NoActiveIsNil(apiKey, model) ==
    IF ~apiKey.present THEN RPNil
    ELSE IF Len(apiKey.ProviderConfigs) = 0
    THEN RPError("API key has no provider configs")
    ELSE LET configs == apiKey.ProviderConfigs
             match == RPFirstMatch(configs, model)
             firstActive == RPFirstActive(configs)
         IN IF match # 0 THEN RPMatched(configs, match, model)
            ELSE IF firstActive = 0 THEN RPNil
            ELSE RPDefaulted(configs, firstActive, model)

resolveProviderForAPIKey(apiKey, model) ==
    IF ~apiKey.present THEN RPNil
    ELSE IF Len(apiKey.ProviderConfigs) = 0
    THEN RPError("API key has no provider configs")
    ELSE LET configs == apiKey.ProviderConfigs
             match == RPFirstMatch(configs, model)
             firstActive == RPFirstActive(configs)
         IN IF match # 0 THEN RPMatched(configs, match, model)
            ELSE IF firstActive = 0
            THEN RPError("API key has no active provider configs")
            ELSE RPDefaulted(configs, firstActive, model)

\* ----------------------------------------------------- keys and requests
GPT4 == <<"g", "p", "t", "-", "4">>

MyModel == <<"m", "y", "-", "m", "o", "d", "e", "l">>

UnknownXyz == <<"u", "n", "k", "n", "o", "w", "n", "-", "x", "y", "z">>

RPModels == { GPT4, MyModel, UnknownXyz }

RPModelCodes ==
    { StoredModelCodes("empty", << >>),
      StoredModelCodes("invalid", << >>),
      StoredModelCodes("json", << MyModel >>),
      StoredModelCodes("json", << GPT4, MyModel >>) }

RPConfigs ==
    [Provider : {"openai", "anthropic"}, IsActive : BOOLEAN,
     IsDefault : BOOLEAN, ModelCodes : RPModelCodes]

RPConfigLists ==
    UNION { [1..n -> RPConfigs] : n \in 0..MaxConfigs }

\* middleware.GetAPIKey(c): nil, or a key with its linked configs.
RPKeys ==
    { [present |-> FALSE, ProviderConfigs |-> << >>] }
    \cup { [present |-> TRUE, ProviderConfigs |-> configs] :
             configs \in RPConfigLists }

RPInit ==
    /\ rpDone = FALSE
    /\ rpKey = [present |-> FALSE, ProviderConfigs |-> << >>]
    /\ rpModel = << >>
    /\ rpResult = RPNil

\* One request: the resolution for its API key and model.
RPResolve(apiKey, model) ==
    /\ ~rpDone
    /\ rpKey' = apiKey
    /\ rpModel' = model
    /\ rpResult' = resolveProviderForAPIKey(apiKey, model)
    /\ rpDone' = TRUE
    /\ UNCHANGED otherThanRP

RPStep == \E apiKey \in RPKeys, model \in RPModels : RPResolve(apiKey, model)

\* =========================================================================
\* OpenAI Chat response  ->  Anthropic response (buffered)
\* =========================================================================

\* json.Unmarshal([]byte(args), &input): the decoded value, nil when the
\* text is not valid JSON.
ORUnmarshalArguments(args) ==
    IF args = <<"{", "}">> THEN [isNil |-> FALSE, members |-> << >>]
    ELSE [isNil |-> TRUE, members |-> << >>]

RECURSIVE ORToolUseBlocks(_)
\* contentBlocks = append(contentBlocks, tool_use block) for every tool call
ORToolUseBlocks(toolCalls) ==
    IF toolCalls = << >> THEN << >>
    ELSE << [type |-> "tool_use", text |-> EmptyStr, id |-> Head(toolCalls).id,
             name |-> Head(toolCalls).name,
             input |-> ORUnmarshalArguments(Head(toolCalls).arguments)] >>
         \o ORToolUseBlocks(Tail(toolCalls))

\* case string: a text block for a non-empty content string
ORTextBlocks(content) ==
    IF content # EmptyStr
    THEN << [type |-> "text", text |-> content, id |-> "", name |-> "",
             input |-> [isNil |-> TRUE, members |-> << >>]] >>
    ELSE << >>

\* switch finishReason { ... }
ORStopReason(finishReason) ==
    CASE finishReason = "stop" -> "end_turn"
      [] finishReason = "length" -> "max_tokens"
      [] finishReason = "tool_calls" -> "tool_use"
      [] OTHER -> finishReason

\* The zero value of models.AnthropicUsage.
ZeroAnthropicUsage == [InputTokens |-> 0, OutputTokens |-> 0]

\* if usage, ok := resp["usage"].(map[string]interface{}); ok { ... }
ORUsage(resp) ==
    IF resp.hasUsage
    THEN [InputTokens |-> resp.usage.prompt_tokens,
          OutputTokens |-> resp.usage.completion_tokens]
    ELSE ZeroAnthropicUsage

\* OpenAIToAnthropicResponse(resp, model): the *models.MessagesResponse.
OpenAIToAnthropicResponse(resp, model) ==
    IF ~resp.hasChoices
    THEN [ID |-> resp.id, Type |-> "message", Role |-> "assistant",
          Model |-> model, contentIsNil |-> TRUE, Content |-> << >>,
          hasStopReason |-> FALSE, StopReason |-> "",
          Usage |-> ZeroAnthropicUsage]
    ELSE [ID |-> resp.id, Type |-> "message", Role |-> "assistant",
          Model |-> model, contentIsNil |-> FALSE,
          Content |-> ORTextBlocks(resp.content) \o ORToolUseBlocks(resp.tool_calls),
          hasStopReason |-> resp.hasFinishReason,
          StopReason |-> IF resp.hasFinishReason
                         THEN ORStopReason(resp.finish_reason) ELSE "",
          Usage |-> ORUsage(resp)]

\* json.Marshal of a MessagesResponse: the members of the JSON object.  The
\* usage member is a struct value, which omitempty never leaves out.
MarshalMessagesResponse(r) ==
    [id |-> r.ID, type |-> r.Type, role |-> r.Role, model |-> r.Model,
     contentIsNull |-> r.contentIsNil, content |-> r.Content,
     hasStopReason |-> r.hasStopReason, stop_reason |-> r.StopReason,
     hasUsage |-> TRUE,
     usage |-> [input_tokens |-> r.Usage.InputTokens,
                output_tokens |-> r.Usage.OutputTokens]]

\* Upstream OpenAI Chat response bodies.
ORResponses ==
    [id : {"r1"}, model : {"upstream-model"}, hasChoices : {TRUE},
     content : { EmptyStr, <<"h", "i">> },
     tool_calls : { << >>,
                    << [id |-> "call_x", name |-> "f", arguments |-> <<"{", "}">>] >>,
                    << [id |-> "call_y", name |-> "g", arguments |-> <<"{">>] >> },
     hasFinishReason : {TRUE}, finish_reason : {"stop", "tool_calls"},
     hasUsage : {TRUE},
     usage : { [prompt_tokens |-> 2, completion_tokens |-> 3] }]
    \cup [id : {"r1"}, model : {"upstream-model"}, hasChoices : BOOLEAN,
          content : { <<"h", "i">> }, tool_calls : { << >> },
          hasFinishReason : BOOLEAN, finish_reason : {"length"},
          hasUsage : {FALSE},
          usage : { [prompt_tokens |-> 0, completion_tokens |-> 0] }]

\* =========================================================================
\* One gateway request: API key authentication, AnthropicMessages, an
\* OpenAI Chat upstream
\* =========================================================================

\* A pointer field that is nil (DailyRequestLimit and the like).
NoLimit == 0 - 1

\* CheckUsageLimits(key): the error it returns, "" for nil.  resetDaily and
\* resetMonthly say whether the reset times lie before now.
CheckUsageLimits(key, resetDaily, resetMonthly) ==
    LET dailyRequests == IF resetDaily THEN 0 ELSE key.DailyRequestsUsed
        dailyTokens == IF resetDaily THEN 0 ELSE key.DailyTokensUsed
        monthlyRequests == IF resetMonthly THEN 0 ELSE key.MonthlyRequestsUsed
        monthlyTokens == IF resetMonthly THEN 0 ELSE key.MonthlyTokensUsed
    IN CASE key.DailyRequestLimit # NoLimit /\ dailyRequests >= key.DailyRequestLimit
              -> "daily request limit exceeded"
         [] key.MonthlyRequestLimit # NoLimit /\ monthlyRequests >= key.MonthlyRequestLimit
              -> "monthly request limit exceeded"
         [] key.DailyTokenLimit # NoLimit /\ dailyTokens >= key.DailyTokenLimit
              -> "daily token limit exceeded"
         [] key.MonthlyTokenLimit # NoLimit /\ monthlyTokens >= key.MonthlyTokenLimit
              -> "monthly token limit exceeded"
         [] OTHER -> ""

\* normalizeProtocol
normalizeProtocol(protocol) == IF protocol = "" THEN "openai_chat" ELSE protocol

\* getCredentials with an API key in the context: the index of the first
\* active config of the provider, 0 if there is none.
GWCredentialsConfig(configs, provider) ==
    LET matching == { i \in 1..Len(configs) :
                        configs[i].Provider = provider /\ configs[i].IsActive }
    IN IF matching = {} THEN 0
       ELSE CHOOSE i \in matching : \A j \in matching : i <= j

\* The provider configs linked to the keys of the requests.
GWConfig(active, codes, keyOk) ==
    [Provider |-> "openai", IsActive |-> active, IsDefault |-> FALSE,
     ModelCodes |-> codes, Protocol |-> "", EncryptedKeyOk |-> keyOk]

GWConfigLists ==
    { << >>,
      << GWConfig(FALSE, StoredModelCodes("json", << MyModel >>), TRUE) >>,
      << GWConfig(TRUE, StoredModelCodes("json", << MyModel >>), TRUE) >>,
      << GWConfig(TRUE, StoredModelCodes("empty", << >>), FALSE) >>,
      << GWConfig(FALSE, StoredModelCodes("empty", << >>), TRUE),
         GWConfig(TRUE, StoredModelCodes("json", << MyModel >>), TRUE) >> }

\* The usage limits and counters of the keys.
GWLimits ==
    { [DailyRequestLimit |-> NoLimit, MonthlyRequestLimit |-> NoLimit,
       DailyTokenLimit |-> NoLimit, MonthlyTokenLimit |-> NoLimit,
       DailyRequestsUsed |-> 1, MonthlyRequestsUsed |-> 1,
       DailyTokensUsed |-> 5, MonthlyTokensUsed |-> 5],
      [DailyRequestLimit |-> 1, MonthlyRequestLimit |-> NoLimit,
       DailyTokenLimit |-> NoLimit, MonthlyTokenLimit |-> NoLimit,
       DailyRequestsUsed |-> 1, MonthlyRequestsUsed |-> 1,
       DailyTokensUsed |-> 5, MonthlyTokensUsed |-> 5],
      [DailyRequestLimit |-> 2, MonthlyRequestLimit |-> NoLimit,
       DailyTokenLimit |-> NoLimit, MonthlyTokenLimit |-> 5,
       DailyRequestsUsed |-> 1, MonthlyRequestsUsed |-> 1,
       DailyTokensUsed |-> 5, MonthlyTokensUsed |-> 5],
      [DailyRequestLimit |-> 2, MonthlyRequestLimit |-> 9,
       DailyTokenLimit |-> 9, MonthlyTokenLimit |-> 9,
       DailyRequestsUsed |-> 1, MonthlyRequestsUsed |-> 1,
       DailyTokensUsed |-> 5, MonthlyTokensUsed |-> 5] }

\* The row found for the key hash (found = FALSE: no row), with its linked
\* configs preloaded.
GWKeys ==
    { [found |-> f, IsActive |-> a, expired |-> e, present |-> TRUE,
       limits |-> l, ProviderConfigs |-> configs] :
        f \in BOOLEAN, a \in BOOLEAN, e \in BOOLEAN, l \in GWLimits,
        configs \in GWConfigLists }

GWRequests == [model : { MyModel, UnknownXyz }, stream : BOOLEAN]

GWInit ==
    /\ gwPc = "idle"
    /\ gwKey = << >>
    /\ gwReq = << >>
    /\ gwModel = << >>
    /\ gwProvider = ""
    /\ gwStatus = 0
    /\ gwUpstream = << >>
    /\ gwDecrypts = 0
    /\ gwState = NewOpenAIToAnthropicStreamState
    /\ gwFrames = << >>
    /\ gwBody = << >>
    /\ gwReply = << >>
    /\ gwUsage = << >>
    /\ gwLines = 0

\* return echo.NewHTTPError(status, ...)
GWAnswer(status) ==
    /\ gwStatus' = status
    /\ gwPc' = "answered"

\* authenticateWithAPIKey: 401 for an unknown, inactive or expired key,
\* otherwise the key is put in the context and the handler is called.
GWAuthenticate(key, req) ==
    /\ gwPc = "idle"
    /\ gwKey' = key
    /\ gwReq' = req
    /\ IF ~key.found \/ ~key.IsActive \/ key.expired
       THEN GWAnswer(401) /\ UNCHANGED gwModel
       ELSE /\ gwPc' = "handler"
            /\ gwModel' = req.model
            /\ UNCHANGED gwStatus
    /\ UNCHANGED <<gwProvider, gwUpstream, gwDecrypts, gwState, gwFrames,
                   gwBody, gwReply, gwUsage, gwLines>>
    /\ UNCHANGED otherThanGW

GWResolve_Decrypts ==
    /\ gwPc = "handler"
    /\ LET resolved == resolveProviderForAPIKey(gwKey, gwModel)
           model == IF resolved.kind = "resolved" THEN resolved.Model ELSE gwModel
           named == IF resolved.kind = "resolved" THEN resolved.Provider ELSE ""
           provider == IF named = "" THEN getTargetProvider(model) ELSE named
       IN IF resolved.kind = "error"
          THEN GWAnswer(401) /\ UNCHANGED <<gwModel, gwProvider, gwDecrypts>>
          ELSE /\ gwModel' = model
               /\ gwProvider' = provider
               /\ gwDecrypts' = gwDecrypts + 1
               /\ IF provider = ""
                  THEN GWAnswer(400)
                  ELSE gwPc' = "credentials" /\ UNCHANGED gwStatus
    /\ UNCHANGED <<gwKey, gwReq, gwUpstream, gwState, gwFrames,
                   gwBody, gwReply, gwUsage, gwLines>>
    /\ UNCHANGED otherThanGW

\* AnthropicMessages up to the provider: 401 on a resolver error; a result
\* sets req.Model = resolved.Model and provider = resolved.Provider; without
\* a provider the model prefix decides, and 400 if it names none.
GWResolve ==
    /\ gwPc = "handler"
    /\ LET resolved == resolveProviderForAPIKey(gwKey, gwModel)
           model == IF resolved.kind = "resolved" THEN resolved.Model ELSE gwModel
           named == IF resolved.kind = "resolved" THEN resolved.Provider ELSE ""
           provider == IF named = "" THEN getTargetProvider(model) ELSE named
       IN IF resolved.kind = "error"
          THEN GWAnswer(401) /\ UNCHANGED <<gwModel, gwProvider>>
          ELSE /\ gwModel' = model
               /\ gwProvider' = provider
               /\ IF provider = ""
                  THEN GWAnswer(400)
                  ELSE gwPc' = "credentials" /\ UNCHANGED gwStatus
    /\ UNCHANGED <<gwKey, gwReq, gwUpstream, gwDecrypts, gwState, gwFrames,
                   gwBody, gwReply, gwUsage, gwLines>>
    /\ UNCHANGED otherThanGW

\* getCredentials: 401 when the key has no active config of the provider or
\* the secret cannot be decrypted.
GWGetCredentials ==
    /\ gwPc = "credentials"
    /\ LET i == GWCredentialsConfig(gwKey.ProviderConfigs, gwProvider)
       IN IF i = 0
          THEN GWAnswer(401) /\ UNCHANGED gwDecrypts
          ELSE /\ gwDecrypts' = gwDecrypts + 1
               /\ IF ~gwKey.ProviderConfigs[i].EncryptedKeyOk
                  THEN GWAnswer(401)
                  ELSE IF normalizeProtocol(gwKey.ProviderConfigs[i].Protocol)
                          = "openai_chat"
                       THEN gwPc' = "route" /\ UNCHANGED gwStatus
                       ELSE GWAnswer(400)
    /\ UNCHANGED <<gwKey, gwReq, gwModel, gwProvider, gwUpstream, gwState,
                   gwFrames, gwBody, gwReply, gwUsage, gwLines>>
    /\ UNCHANGED otherThanGW

\* RecordUsage: one usage record, and the key row's counters.
RecordUsage(endpoint, model, promptTokens, completionTokens, statusCode) ==
    /\ gwUsage' = Append(gwUsage,
                         [Endpoint |-> endpoint, Model |-> model,
                          PromptTokens |-> promptTokens,
                          CompletionTokens |-> completionTokens,
                          TotalTokens |-> promptTokens + completionTokens,
                          StatusCode |-> statusCode])
    /\ gwKey' = [gwKey EXCEPT
                   !.limits.DailyRequestsUsed = @ + 1,
                   !.limits.MonthlyRequestsUsed = @ + 1,
                   !.limits.DailyTokensUsed = @ + promptTokens + completionTokens,
                   !.limits.MonthlyTokensUsed = @ + promptTokens + completionTokens]

\* What adapter.ChatCompletions returns: an error (no response, or a body
\* that does not decode), or the decoded body and the upstream status.
GWBufferedOutcomes ==
    { [err |-> TRUE, status |-> 0, body |-> << >>] }
    \cup { [err |-> FALSE, status |-> st, body |-> <<resp>>] :
             st \in {200, 500}, resp \in ORResponses }

\* handleAnthropicToOpenAIChat without req.Stream: 502 on an adapter error,
\* otherwise convert, record the usage, answer with the upstream status.
GWBuffered(outcome) ==
    /\ gwPc = "route"
    /\ ~gwReq.stream
    /\ gwUpstream' = Append(gwUpstream, outcome.status)
    /\ IF outcome.err
       THEN GWAnswer(502) /\ UNCHANGED <<gwBody, gwReply, gwUsage, gwKey>>
       ELSE LET anthropicResp == OpenAIToAnthropicResponse(outcome.body[1], gwModel)
            IN /\ RecordUsage("/v1/messages", gwModel,
                              anthropicResp.Usage.InputTokens,
                              anthropicResp.Usage.OutputTokens, outcome.status)
               /\ gwBody' = outcome.body
               /\ gwReply' = << MarshalMessagesResponse(anthropicResp) >>
               /\ GWAnswer(outcome.status)
    /\ UNCHANGED <<gwReq, gwModel, gwProvider, gwDecrypts, gwState, gwFrames,
                   gwLines>>
    /\ UNCHANGED otherThanGW

\* What adapter.ChatCompletionsStream returns: an error, or a stream reader
\* and the upstream status, whatever that status is.
GWStreamOutcomes ==
    { [err |-> TRUE, status |-> 0] }
    \cup { [err |-> FALSE, status |-> st] : st \in {200, 429, 500} }

\* streamAnthropicFromOpenAIChat up to the loop: 502 on an adapter error,
\* otherwise the SSE headers and WriteHeader(statusCode).
GWStreamOpen(outcome) ==
    /\ gwPc = "route"
    /\ gwReq.stream
    /\ gwUpstream' = Append(gwUpstream, outcome.status)
    /\ IF outcome.err
       THEN GWAnswer(502)
       ELSE gwStatus' = outcome.status /\ gwPc' = "streaming"
    /\ UNCHANGED <<gwKey, gwReq, gwModel, gwProvider, gwDecrypts, gwState,
                   gwFrames, gwBody, gwReply, gwUsage, gwLines>>
    /\ UNCHANGED otherThanGW

\* The upstream chunks of the streamed replies; the upstream names its own
\* model in each.
GWChunks ==
    { [id |-> "c1", model |-> GPT4,
       choices |-> << [finish_reason |-> "", hasDelta |-> TRUE,
                       content |-> <<"h", "i">>, tool_calls |-> << >>] >>],
      [id |-> "c1", model |-> GPT4,
       choices |-> << [finish_reason |-> "stop", hasDelta |-> TRUE,
                       content |-> EmptyStr, tool_calls |-> << >>] >>] }

\* line, err := reader.ReadString('\n')
GWRead ==
    /\ gwPc = "streaming"
    /\ gwLines < MaxGatewayLines
    /\ gwLines' = gwLines + 1
    /\ UNCHANGED <<gwKey, gwReq, gwModel, gwProvider, gwUpstream, gwDecrypts,
                   gwBody, gwReply, gwUsage>>
    /\ UNCHANGED otherThanGW

\* A data line holding a JSON object: convert, write one frame per event.
GWStreamLine(data) ==
    /\ GWRead
    /\ LET r == OpenAIStreamToAnthropicStream(data, gwState)
       IN /\ gwState' = r.st
          /\ gwFrames' = gwFrames \o MessageFrames(r.ev)
    /\ UNCHANGED <<gwPc, gwStatus>>

\* A line that is skipped: blank, "event:", not "data:", or not valid JSON.
GWStreamSkipped ==
    /\ GWRead
    /\ UNCHANGED <<gwPc, gwStatus, gwState, gwFrames>>

\* "data: [DONE]", io.EOF (return nil) or another read error (return err,
\* after the header has been written): the handler returns.
GWStreamReturn ==
    /\ GWRead
    /\ gwPc' = "answered"
    /\ UNCHANGED <<gwStatus, gwState, gwFrames>>

GatewayRequest ==
    \/ \E key \in GWKeys, req \in GWRequests : GWAuthenticate(key, req)
    \/ GWResolve
    \/ GWGetCredentials
    \/ \E outcome \in GWBufferedOutcomes : GWBuffered(outcome)
    \/ \E outcome \in GWStreamOutcomes : GWStreamOpen(outcome)
    \/ \E data \in GWChunks : GWStreamLine(data)
    \/ GWStreamSkipped
    \/ GWStreamReturn

\* =========================================================================
\* Gemini request  ->  Anthropic request
\* =========================================================================

\* generateToolCallID(index): "call_" + time.Now() to the second + "_" +
\* the letter 'a'+index. The two varying parts are kept as fields.
generateToolCallID(index, now) == [ts |-> now, letter |-> index]

GCNoID == [ts |-> 0 - 1, letter |-> 0 - 1]

GCBlock(type, text, id, name, toolUseID) == [Type |-> type, Text |-> text, ID |-> id, Name |-> name, ToolUseID |-> toolUseID]

\* The blocks one part appends to contentBlocks; a tool_use takes its index
\* from the blocks already in the message, a tool_result always index 0.
GCPartBlocks(blocks, part, now) ==
    LET withText == IF part.Text # ""
                    THEN Append(blocks, GCBlock("text", part.Text, GCNoID, "", GCNoID))
                    ELSE blocks
        withCall == IF part.FunctionCall # ""
                    THEN Append(withText,
                                GCBlock("tool_use", "",
                                        generateToolCallID(Len(withText), now),
                                        part.FunctionCall, GCNoID))
                    ELSE withText
    IN  IF part.FunctionResponse # ""
        THEN Append(withCall,
                    GCBlock("tool_result", "", GCNoID, "",
                            generateToolCallID(0, now)))
        ELSE withCall

RECURSIVE GCContentBlocks(_, _, _, _)
GCContentBlocks(parts, i, blocks, now) ==
    IF i > Len(parts) THEN blocks
    ELSE GCContentBlocks(parts, i + 1, GCPartBlocks(blocks, parts[i], now), now)

GCRole(role) == IF role = "model" THEN "assistant" ELSE "user"

\* The second at which content i is converted.
GCNow(i, tickAfter) == IF i <= tickAfter THEN 0 ELSE 1

RECURSIVE GCMessages(_, _, _, _)
GCMessages(contents, i, messages, tickAfter) ==
    IF i > Len(contents) THEN messages
    ELSE LET blocks == GCContentBlocks(contents[i].Parts, 1, << >>,
                                       GCNow(i, tickAfter))
         IN  GCMessages(contents, i + 1,
                        IF Len(blocks) > 0
                        THEN Append(messages,
                                    [Role |-> GCRole(contents[i].Role),
                                     Content |-> blocks])
                        ELSE messages,
                        tickAfter)

GeminiToAnthropicRequest(req, model, tickAfter) == [Model |-> model, MaxTokens |-> 4096, Messages |-> GCMessages(req.Contents, 1, << >>, tickAfter)]

GCPart(text, call, response) == [Text |-> text, FunctionCall |-> call, FunctionResponse |-> response]

\* Parts of a request: text, a call of f, the response of f, text and a call
\* in one part, and a part with nothing in it.
GCParts ==
    { GCPart("t", "", ""), GCPart("", "f", ""), GCPart("", "", "f"),
      GCPart("t", "f", ""), GCPart("", "", "") }

GCPartLists == UNION { [1..n -> GCParts] : n \in 0..MaxGeminiParts }

GCContents == [Role : {"model", "user"}, Parts : GCPartLists]

GCRequests ==
    { [Contents |-> contents] :
        contents \in UNION { [1..n -> GCContents] : n \in 1..MaxGeminiContents } }

GCInit ==
    /\ gcDone = FALSE
    /\ gcReq = [Contents |-> << >>]
    /\ gcTickAfter = 0
    /\ gcOut = [Model |-> << >>, MaxTokens |-> 0, Messages |-> << >>]

\* One conversion; the clock ticks once after some content, or not at all.
GCConvert(req, tickAfter) ==
    /\ ~gcDone
    /\ gcReq' = req
    /\ gcTickAfter' = tickAfter
    /\ gcOut' = GeminiToAnthropicRequest(req, MyModel, tickAfter)
    /\ gcDone' = TRUE
    /\ UNCHANGED otherThanGC

GCStep ==
    \E req \in GCRequests :
        \E tickAfter \in 0..Len(req.Contents) : GCConvert(req, tickAfter)

\* =========================================================================
\* OpenAI chat request  ->  Anthropic request, Gemini request (system text)
\* =========================================================================

\* getTextContent(content) for a content that is a string.
getTextContent(content) == content

\* The messages the loop appends: every message but the system ones.
RECURSIVE SRMessages(_, _, _)
SRMessages(msgs, i, messages) ==
    IF i > Len(msgs) THEN messages
    ELSE SRMessages(msgs, i + 1,
                    IF msgs[i].Role = "system" THEN messages
                    ELSE Append(messages, msgs[i]))

\* systemText after the loop of the first copy: += at every system
\* message.
RECURSIVE SRSystemText(_, _, _)
SRSystemText(msgs, i, systemText) ==
    IF i > Len(msgs) THEN systemText
    ELSE SRSystemText(msgs, i + 1,
                      IF msgs[i].Role = "system"
                      THEN systemText \o getTextContent(msgs[i].Content)
                      ELSE systemText)

\* The system field after a loop that assigns it at every system message.
RECURSIVE SRSystemAssigned(_, _, _)
SRSystemAssigned(msgs, i, system) ==
    IF i > Len(msgs) THEN system
    ELSE SRSystemAssigned(msgs, i + 1,
                          IF msgs[i].Role = "system"
                          THEN [isSet |-> TRUE,
                                Text |-> getTextContent(msgs[i].Content)]
                          ELSE system)

SRNoSystem == [isSet |-> FALSE, Text |-> << >>]

\* First copy (openai_to_anthropic.go:12-171): System is set after the
\* loop, when systemText is not empty.
OpenAIToAnthropicRequest(req) ==
    LET systemText == SRSystemText(req.Messages, 1, << >>)
    IN  [Model |-> req.Model,
         Messages |-> SRMessages(req.Messages, 1, << >>),
         System |-> IF systemText # << >>
                    THEN [isSet |-> TRUE, Text |-> systemText]
                    ELSE SRNoSystem]

\* Second copy (openai_to_anthropic.go:447-550): System is assigned inside
\* the loop.
OpenAIToAnthropicRequestSecond(req) == [Model |-> req.Model, Messages |-> SRMessages(req.Messages, 1, << >>), System |-> SRSystemAssigned(req.Messages, 1, SRNoSystem)]

\* SystemInstruction is assigned inside the loop, one part holding the
\* message's text.
OpenAIToGeminiRequest(req) == [Contents |-> SRMessages(req.Messages, 1, << >>), SystemInstruction |-> SRSystemAssigned(req.Messages, 1, SRNoSystem)]

SRTexts == { << >>, <<"a">>, <<"b">> }

SRMessageValues == [Role : {"system", "user"}, Content : SRTexts]

SRRequests ==
    { [Model |-> MyModel, Messages |-> msgs] :
        msgs \in UNION { [1..n -> SRMessageValues] : n \in 1..MaxRequestMessages } }

SRInit ==
    /\ srDone = FALSE
    /\ srReq = [Model |-> MyModel, Messages |-> << >>]
    /\ srAnthropic = [Model |-> MyModel, Messages |-> << >>, System |-> SRNoSystem]
    /\ srAnthropicSecond = [Model |-> MyModel, Messages |-> << >>, System |-> SRNoSystem]
    /\ srGemini = [Contents |-> << >>, SystemInstruction |-> SRNoSystem]

\* One request, given to each converter.
SRConvert(req) ==
    /\ ~srDone
    /\ srReq' = req
    /\ srAnthropic' = OpenAIToAnthropicRequest(req)
    /\ srAnthropicSecond' = OpenAIToAnthropicRequestSecond(req)
    /\ srGemini' = OpenAIToGeminiRequest(req)
    /\ srDone' = TRUE
    /\ UNCHANGED otherThanSR

SRStep == \E req \in SRRequests : SRConvert(req)

\* =========================================================================
\* ConfigService: the provider configs of one user
\* =========================================================================

CFCallers == 1..MaxConfigCallers

CFProviders == {"openai", "anthropic"}

CFNoRow == [exists |-> FALSE, Provider |-> "", IsDefault |-> FALSE, IsActive |-> FALSE]

CFNoLocal == [id |-> 0, provider |-> "", flag |-> FALSE]

\* Count(&count) of the user's rows of a provider.
CFCount(provider) ==
    Cardinality({ i \in 1..MaxConfigRows :
                    cfRows[i].exists /\ cfRows[i].Provider = provider })

\* The CreateConfig calls between their Count and their Create.
CFCreating == { p \in CFCallers : cfPc[p] = "create" }

CFInit ==
    /\ cfRows = [i \in 1..MaxConfigRows |-> CFNoRow]
    /\ cfNextID = 1
    /\ cfPc = [p \in CFCallers |-> "idle"]
    /\ cfLocal = [p \in CFCallers |-> CFNoLocal]

\* CreateConfig up to isDefault := count == 0.
CreateConfigCount(p, provider) ==
    /\ cfPc[p] = "idle"
    /\ cfNextID + Cardinality(CFCreating) <= MaxConfigRows
    /\ cfLocal' = [cfLocal EXCEPT ![p] = [id |-> 0, provider |-> provider, flag |-> CFCount(provider) = 0]]
    /\ cfPc' = [cfPc EXCEPT ![p] = "create"]
    /\ UNCHANGED <<cfRows, cfNextID>>
    /\ UNCHANGED otherThanCF

\* s.db.Create(cfg) with IsDefault: isDefault, IsActive: true.
CreateConfigCreate(p) ==
    /\ cfPc[p] = "create"
    /\ cfRows' = [cfRows EXCEPT ![cfNextID] = [exists |-> TRUE, Provider |-> cfLocal[p].provider, IsDefault |-> cfLocal[p].flag, IsActive |-> TRUE]]
    /\ cfNextID' = cfNextID + 1
    /\ cfPc' = [cfPc EXCEPT ![p] = "idle"]
    /\ cfLocal' = [cfLocal EXCEPT ![p] = CFNoLocal]
    /\ UNCHANGED otherThanCF

\* DeleteConfig: one DELETE statement. (An id without a row is answered
\* "config not found" and changes nothing.)
DeleteConfig(p, configID) ==
    /\ cfPc[p] = "idle"
    /\ cfRows[configID].exists
    /\ cfRows' = [cfRows EXCEPT ![configID] = CFNoRow]
    /\ UNCHANGED <<cfNextID, cfPc, cfLocal>>
    /\ UNCHANGED otherThanCF

\* SetDefault: cfg, err := s.GetConfigByID(userID, configID), found.
SetDefaultGet(p, configID) ==
    /\ cfPc[p] = "idle"
    /\ cfRows[configID].exists
    /\ cfLocal' = [cfLocal EXCEPT ![p] = [id |-> configID, provider |-> cfRows[configID].Provider, flag |-> FALSE]]
    /\ cfPc' = [cfPc EXCEPT ![p] = "unset"]
    /\ UNCHANGED <<cfRows, cfNextID>>
    /\ UNCHANGED otherThanCF

\* SetDefault: is_default = false on the provider's other rows.
SetDefaultUnsetOthers(p) ==
    /\ cfPc[p] = "unset"
    /\ cfRows' = [i \in 1..MaxConfigRows |->
                    IF /\ cfRows[i].exists
                       /\ cfRows[i].Provider = cfLocal[p].provider
                       /\ i # cfLocal[p].id
                    THEN [cfRows[i] EXCEPT !.IsDefault = FALSE]
                    ELSE cfRows[i]]
    /\ cfPc' = [cfPc EXCEPT ![p] = "set"]
    /\ UNCHANGED <<cfNextID, cfLocal>>
    /\ UNCHANGED otherThanCF

\* SetDefault: is_default = true on the row of cfg, if it is still there.
SetDefaultSet(p) ==
    /\ cfPc[p] = "set"
    /\ cfRows' = [cfRows EXCEPT ![cfLocal[p].id] = IF @.exists THEN [@ EXCEPT !.IsDefault = TRUE] ELSE @]
    /\ cfPc' = [cfPc EXCEPT ![p] = "idle"]
    /\ cfLocal' = [cfLocal EXCEPT ![p] = CFNoLocal]
    /\ UNCHANGED cfNextID
    /\ UNCHANGED otherThanCF

\* ToggleActive: cfg, err := s.GetConfigByID(userID, configID), found.
ToggleActiveGet(p, configID) ==
    /\ cfPc[p] = "idle"
    /\ cfRows[configID].exists
    /\ cfLocal' = [cfLocal EXCEPT ![p] = [id |-> configID, provider |-> cfRows[configID].Provider, flag |-> cfRows[configID].IsActive]]
    /\ cfPc' = [cfPc EXCEPT ![p] = "toggle"]
    /\ UNCHANGED <<cfRows, cfNextID>>
    /\ UNCHANGED otherThanCF

\* ToggleActive: is_active = !cfg.IsActive on the row of cfg.
ToggleActiveUpdate(p) ==
    /\ cfPc[p] = "toggle"
    /\ cfRows' = [cfRows EXCEPT ![cfLocal[p].id] = IF @.exists THEN [@ EXCEPT !.IsActive = ~cfLocal[p].flag] ELSE @]
    /\ cfPc' = [cfPc EXCEPT ![p] = "idle"]
    /\ cfLocal' = [cfLocal EXCEPT ![p] = CFNoLocal]
    /\ UNCHANGED cfNextID
    /\ UNCHANGED otherThanCF

ConfigService ==
    \/ \E p \in CFCallers, provider \in CFProviders : CreateConfigCount(p, provider)
    \/ \E p \in CFCallers : CreateConfigCreate(p)
    \/ \E p \in CFCallers, configID \in 1..MaxConfigRows : DeleteConfig(p, configID)
    \/ \E p \in CFCallers, configID \in 1..MaxConfigRows : SetDefaultGet(p, configID)
    \/ \E p \in CFCallers : SetDefaultUnsetOthers(p)
    \/ \E p \in CFCallers : SetDefaultSet(p)
    \/ \E p \in CFCallers, configID \in 1..MaxConfigRows : ToggleActiveGet(p, configID)
    \/ \E p \in CFCallers : ToggleActiveUpdate(p)

\* =========================================================================
\* OpenAIAdapter.ChatCompletionsStream / ResponsesStream: the readers of
\* resp.Body
\* =========================================================================

\* The first n elements of a sequence, and the rest.
URTake(s, n) == SubSeq(s, 1, n)

URDrop(s, n) == SubSeq(s, n + 1, Len(s))

URInit ==
    /\ urSent = 0
    /\ urBody = << >>
    /\ urPumpBuf = << >>
    /\ urPump = << >>
    /\ urLogBuf = << >>
    /\ urLogged = << >>

\* The upstream writes its next line; lines are numbered as sent.
URSend ==
    /\ urSent < MaxUpstreamLines
    /\ urSent' = urSent + 1
    /\ urBody' = Append(urBody, urSent + 1)
    /\ UNCHANGED <<urPumpBuf, urPump, urLogBuf, urLogged>>
    /\ UNCHANGED otherThanUR

\* The StreamReader's bufio.Reader fills its empty buffer with one Read of
\* resp.Body: some of the bytes waiting there (here, whole lines).
URPumpFill(n) ==
    /\ urPumpBuf = << >>
    /\ n \in 1..Len(urBody)
    /\ urPumpBuf' = URTake(urBody, n)
    /\ urBody' = URDrop(urBody, n)
    /\ UNCHANGED <<urSent, urPump, urLogBuf, urLogged>>
    /\ UNCHANGED otherThanUR

\* reader.ReadString('\n') in the handler's pump loop returns a line.
URPumpReadString ==
    /\ urPumpBuf # << >>
    /\ urPump' = Append(urPump, Head(urPumpBuf))
    /\ urPumpBuf' = Tail(urPumpBuf)
    /\ UNCHANGED <<urSent, urBody, urLogBuf, urLogged>>
    /\ UNCHANGED otherThanUR

\* The goroutine's own bufio.NewReader(resp.Body) fills its buffer with one
\* Read of the same body.
URLoggerFill(n) ==
    /\ urLogBuf = << >>
    /\ n \in 1..Len(urBody)
    /\ urLogBuf' = URTake(urBody, n)
    /\ urBody' = URDrop(urBody, n)
    /\ UNCHANGED <<urSent, urPumpBuf, urPump, urLogged>>
    /\ UNCHANGED otherThanUR

\* reader.ReadString('\n') in the goroutine returns a line, which is logged.
URLoggerReadString ==
    /\ urLogBuf # << >>
    /\ urLogged' = Append(urLogged, Head(urLogBuf))
    /\ urLogBuf' = Tail(urLogBuf)
    /\ UNCHANGED <<urSent, urBody, urPumpBuf, urPump>>
    /\ UNCHANGED otherThanUR

UpstreamReaders ==
    \/ URSend
    \/ \E n \in 1..MaxUpstreamLines : URPumpFill(n)
    \/ URPumpReadString
    \/ \E n \in 1..MaxUpstreamLines : URLoggerFill(n)
    \/ URLoggerReadString

\* =========================================================================
\* Stream converters on upstream events of any JSON shape
\* =========================================================================

\* What a member of the decoded JSON object holds: nothing (absent or
\* null), a string, an array, or an object.
PNKinds == {"absent", "string", "array", "object"}

\* x.(map[string]interface{}) without the ok result: a run-time panic
\* unless x holds an object.
PNAssertObject(kind, outcome) == IF kind = "object" THEN outcome ELSE "panic"

\* AnthropicStreamToOpenAIStream(eventType, data, model, id): "chunk" when
\* it returns a marshalled chunk, "nothing" for nil, nil.
AnthropicStreamToOpenAIStream(eventType, data) ==
    CASE eventType = "message_start" -> "chunk"
      [] eventType = "content_block_delta" -> PNAssertObject(data.delta, "chunk")
      [] eventType = "content_block_start" ->
            IF data.content_block # "object" THEN "nothing"
            ELSE IF data.blockType # "tool_use" THEN "nothing" ELSE "chunk"
      [] eventType = "message_delta" -> PNAssertObject(data.delta, "chunk")
      [] OTHER -> "nothing"

\* AnthropicStreamToGeminiStream(eventType, data).
AnthropicStreamToGeminiStream(eventType, data) ==
    CASE eventType = "content_block_delta" ->
            PNAssertObject(data.delta,
                           IF data.deltaType = "text_delta" THEN "chunk"
                           ELSE "nothing")
      [] eventType = "message_delta" -> PNAssertObject(data.delta, "chunk")
      [] OTHER -> "nothing"

\* OpenAIStreamToAnthropicStream(data, state) on a state that has not
\* finished: choices, _ := data["choices"].([]interface{}), the terminal
\* events when it is empty, else choice := choices[0].(map[string]interface{}).
PNOpenAIStreamToAnthropicStream(data) ==
    IF data.choices # "array" \/ data.firstChoice = "absent" THEN "chunk"
    ELSE PNAssertObject(data.firstChoice, "chunk")

PNConverters ==
    { "AnthropicStreamToOpenAIStream", "AnthropicStreamToGeminiStream",
      "OpenAIStreamToAnthropicStream" }

PNEventTypes ==
    { "message_start", "content_block_start", "content_block_delta",
      "message_delta", "ping" }

\* Decoded upstream events: the kind of each member the converters look at.
PNData ==
    [delta : PNKinds, deltaType : {"text_delta", "input_json_delta"},
     content_block : {"absent", "object"}, blockType : {"text", "tool_use"},
     choices : {"absent", "array"}, firstChoice : {"absent", "string", "object"}]

PNOutcome(converter, eventType, data) ==
    CASE converter = "AnthropicStreamToOpenAIStream" ->
            AnthropicStreamToOpenAIStream(eventType, data)
      [] converter = "AnthropicStreamToGeminiStream" ->
            AnthropicStreamToGeminiStream(eventType, data)
      [] OTHER -> PNOpenAIStreamToAnthropicStream(data)

PNInit ==
    /\ pnDone = FALSE
    /\ pnCall = << >>
    /\ pnOutcome = ""

\* One call, as the pump loops make it on every decoded data line.
PNConvert(converter, eventType, data) ==
    /\ ~pnDone
    /\ pnCall' = <<[converter |-> converter, eventType |-> eventType, data |-> data]>>
    /\ pnOutcome' = PNOutcome(converter, eventType, data)
    /\ pnDone' = TRUE
    /\ UNCHANGED otherThanPN

PNStep ==
    \E converter \in PNConverters, eventType \in PNEventTypes, data \in PNData :
        PNConvert(converter, eventType, data)

\* =========================================================================
\* APIKeyService.RecordUsage under concurrent requests of one key
\* =========================================================================

RUCallers == 1..MaxUsageCallers

RUNoArgs == [promptTokens |-> 0, completionTokens |-> 0]

\* Token counts a request reports.
RUTokens == [promptTokens : {0, 2}, completionTokens : {0, 3}]

RUIncrement_Overwrites(key, totalTokens) ==
    [DailyRequestsUsed |-> 1, MonthlyRequestsUsed |-> 1,
     DailyTokensUsed |-> totalTokens, MonthlyTokensUsed |-> totalTokens]

\* The UPDATE with gorm.Expr("daily_requests_used + 1") and the like: one
\* statement, evaluated by the database on the row as it is.
RUIncrement(key, totalTokens) ==
    [DailyRequestsUsed |-> key.DailyRequestsUsed + 1,
     MonthlyRequestsUsed |-> key.MonthlyRequestsUsed + 1,
     DailyTokensUsed |-> key.DailyTokensUsed + totalTokens,
     MonthlyTokensUsed |-> key.MonthlyTokensUsed + totalTokens]

RUInit ==
    /\ ruRecords = << >>
    /\ ruKey = [DailyRequestsUsed |-> 0, MonthlyRequestsUsed |-> 0,
                DailyTokensUsed |-> 0, MonthlyTokensUsed |-> 0]
    /\ ruPc = [p \in RUCallers |-> "idle"]
    /\ ruArgs = [p \in RUCallers |-> RUNoArgs]

\* RecordUsage up to s.db.Create(record), which succeeds.
RUCreateRecord(p, tokens) ==
    /\ ruPc[p] = "idle"
    /\ ruArgs' = [ruArgs EXCEPT ![p] = tokens]
    /\ ruRecords' = Append(ruRecords,
                           [caller |-> p,
                            PromptTokens |-> tokens.promptTokens,
                            CompletionTokens |-> tokens.completionTokens,
                            TotalTokens |-> tokens.promptTokens + tokens.completionTokens])
    /\ ruPc' = [ruPc EXCEPT ![p] = "created"]
    /\ UNCHANGED ruKey
    /\ UNCHANGED otherThanRU

\* s.db.Create(record) fails: return err, no counter is touched.
RUCreateFails(p, tokens) ==
    /\ ruPc[p] = "idle"
    /\ ruArgs' = [ruArgs EXCEPT ![p] = tokens]
    /\ ruPc' = [ruPc EXCEPT ![p] = "failed"]
    /\ UNCHANGED <<ruRecords, ruKey>>
    /\ UNCHANGED otherThanRU

\* The counters' UPDATE, then return.
RUUpdateCounters(p) ==
    /\ ruPc[p] = "created"
    /\ ruKey' = RUIncrement(ruKey, ruArgs[p].promptTokens + ruArgs[p].completionTokens)
    /\ ruPc' = [ruPc EXCEPT ![p] = "returned"]
    /\ UNCHANGED <<ruRecords, ruArgs>>
    /\ UNCHANGED otherThanRU

UsageService ==
    \/ \E p \in RUCallers, tokens \in RUTokens : RUCreateRecord(p, tokens)
    \/ \E p \in RUCallers, tokens \in RUTokens : RUCreateFails(p, tokens)
    \/ \E p \in RUCallers : RUUpdateCounters(p)

Init ==
    /\ OAInit /\ CRInit /\ GAInit /\ AOInit /\ RAInit /\ HCInit
    /\ PLInit /\ RPInit
    /\ GWInit
    /\ GCInit
    /\ SRInit
    /\ CFInit
    /\ URInit
    /\ PNInit
    /\ RUInit

Next ==
    \/ OAStep \/ CRStep \/ streamAnthropicFromGemini \/ AOStep
    \/ streamAnthropicFromOpenAIResponses \/ streamAnthropicFromOpenAIChat
    \/ PumpLoop \/ RPStep
    \/ GatewayRequest
    \/ GCStep
    \/ SRStep
    \/ ConfigService
    \/ UpstreamReaders
    \/ PNStep
    \/ UsageService

Spec == Init /\ [][Next]_vars

\* One component at a time.
SpecOA == Init /\ [][OAStep]_vars

SpecCR == Init /\ [][CRStep]_vars

SpecGA == Init /\ [][streamAnthropicFromGemini]_vars

SpecAO == Init /\ [][AOStep]_vars

SpecRA == Init /\ [][streamAnthropicFromOpenAIResponses]_vars

SpecHC == Init /\ [][streamAnthropicFromOpenAIChat]_vars

SpecPL == Init /\ [][PumpLoop]_vars

SpecRP == Init /\ [][RPStep]_vars

SpecGW == Init /\ [][GatewayRequest]_vars

SpecGC == Init /\ [][GCStep]_vars

SpecSR == Init /\ [][SRStep]_vars

SpecCF == Init /\ [][ConfigService]_vars

SpecUR == Init /\ [][UpstreamReaders]_vars

SpecPN == Init /\ [][PNStep]_vars

SpecRU == Init /\ [][UsageService]_vars

\* ---------------------------------------------------------------- claims
\* The chunk of the repository's first-chunk test: id, model, content "hi",
\* finish_reason "stop".
OAFirstChunkHiStop ==
    [id |-> "c1", model |-> "gpt-4",
     choices |-> << [finish_reason |-> "stop", hasDelta |-> TRUE,
                     content |-> <<"h", "i">>, tool_calls |-> << >>] >>]

\* C1: once a call has emitted message_stop, every later call on the same
\* state record returns no events.
C1_NoEventsAfterMessageStop == oaStopped => oaLast = << >>

\* C1 witness: a chunk carrying text and a finish_reason is fed after
\* message_stop was emitted.
C1_Witness ==
    /\ oaStopped
    /\ oaCalls >= 2
    /\ oaLastChunk = <<OAFirstChunkHiStop>>

\* C2: one call on a fresh state with a chunk carrying id, model, content
\* "hi" and finish_reason "stop" returns exactly message_start,
\* content_block_start(0, text), content_block_delta(text_delta "hi"),
\* content_block_stop(0), message_delta(end_turn), message_stop.
C2_FirstChunkSixEvents ==
    (oaCalls = 1 /\ oaLastChunk = <<OAFirstChunkHiStop>>) =>
        oaLast = << MessageStartEvent("c1", "gpt-4"),
                    ContentBlockStartText(0),
                    TextDeltaEvent(0, <<"h", "i">>),
                    ContentBlockStopEvent(0),
                    MessageDeltaEvent("end_turn"),
                    MessageStopEvent >>

\* C2 witness: that chunk was the first call and six events came back.
C2_Witness ==
    /\ oaCalls = 1
    /\ oaLastChunk = <<OAFirstChunkHiStop>>
    /\ Len(oaLast) = 6

\* C3 (as stated): the concatenation of all emitted text_delta texts equals
\* the concatenation of every delta.content received from the upstream.
C3_AllTextReceivedIsEmitted == ConcatText(oaOut, "text_delta") = oaTextIn

\* C3 (amended): the concatenation of all emitted text_delta texts equals
\* the concatenation of the delta.content of the chunks received before the
\* machine finished (up to and including the chunk that emitted message_stop).
C3_TextReceivedBeforeFinishIsEmitted ==
    ConcatText(oaOut, "text_delta") = oaTextInLive

\* C3 witness: text was emitted in two separate text blocks with a tool_use
\* block between them, and the stream has finished.
C3_Witness ==
    /\ oaState.finished
    /\ ConcatText(oaOut, "text_delta") = <<"h", "i", "h", "i">>
    /\ \E i \in 1..Len(oaOut) :
          oaOut[i].type = "content_block_start" /\ oaOut[i].block = "tool_use"

\* C4: every non-empty function.arguments fragment received (while the
\* stream is live) is emitted in an input_json_delta event, in the order
\* received, also when it arrives without an id while no tool_use block is
\* open.
C4_NoArgumentBytesDropped ==
    ConcatText(oaOut, "input_json_delta") = oaArgsInLive

\* C5: if a tool_use block was opened in the stream, the stop_reason of the
\* emitted message_delta is tool_use, whatever the upstream finish_reason.
C5_ToolUseOverridesStopReason ==
    (\E j \in 1..Len(oaOut) :
        oaOut[j].type = "content_block_start" /\ oaOut[j].block = "tool_use")
    => \A i \in 1..Len(oaOut) :
          oaOut[i].type = "message_delta" => oaOut[i].stop_reason = "tool_use"

\* C6 (as stated): the finish_reason is tool_calls whenever the upstream
\* content contains a tool_use block, whatever the upstream stop_reason.
C6_ToolUseBlockGivesToolCalls ==
    (/\ aoDone
     /\ aoResp.content.kind = "blocks"
     /\ \E i \in 1..Len(aoResp.content.blocks) :
           aoResp.content.blocks[i].type = "tool_use")
    => aoResult.finish_reason = "tool_calls"

\* C6 (amended): the finish_reason is decided by the upstream stop_reason
\* alone (end_turn -> stop, max_tokens -> length, tool_use -> tool_calls, any
\* other value unchanged, absent -> empty), whether or not the content
\* contains a tool_use block.
C6_FinishReasonFollowsStopReason ==
    aoDone =>
        /\ ~aoResp.hasStopReason => aoResult.finish_reason = ""
        /\ aoResp.hasStopReason =>
             /\ aoResp.stop_reason = "end_turn" => aoResult.finish_reason = "stop"
             /\ aoResp.stop_reason = "max_tokens" => aoResult.finish_reason = "length"
             /\ aoResp.stop_reason = "tool_use" => aoResult.finish_reason = "tool_calls"
             /\ aoResp.stop_reason \notin {"end_turn", "max_tokens", "tool_use"}
                  => aoResult.finish_reason = aoResp.stop_reason

\* C6 witness: the response of the repository's test: text "hello", a
\* tool_use block, stop_reason end_turn; the result has the tool call and
\* finish_reason stop.
C6_Witness ==
    /\ aoDone
    /\ aoResp.content.kind = "blocks"
    /\ Len(aoResp.content.blocks) = 2
    /\ aoResp.content.blocks[1].type = "text"
    /\ aoResp.content.blocks[2].type = "tool_use"
    /\ aoResp.hasStopReason /\ aoResp.stop_reason = "end_turn"
    /\ Len(aoResult.message.tool_calls) = 1
    /\ aoResult.finish_reason = "stop"

\* A tool-call delta that carries only arguments (no id, no name).
CRArgumentsOnlyChunk ==
    [id |-> "chatcmpl-1", model |-> "gpt-4",
     choices |-> << [finish_reason |-> "", hasDelta |-> TRUE, content |-> EmptyStr,
                     tool_calls |-> << [id |-> "", name |-> "",
                                        arguments |-> <<"{">>] >>] >>]

\* C7: after a chunk has opened the function_call item call_x, a later
\* tool-call delta carrying only arguments is emitted as one
\* response.function_call_arguments.delta on that same output item, and no
\* further response.output_item.added is emitted for it.
C7_ArgumentsGoToOpenFunctionCall ==
    (/\ crCalls >= 2
     /\ ~crCompleted
     /\ DOMAIN crPrev.toolCallIndices = {"call_x"}
     /\ crLastChunk = <<CRArgumentsOnlyChunk>>)
    => crLast = << FunctionCallArgumentsDeltaEvent(
                       crPrev.toolCallIndices["call_x"], <<"{">>) >>

\* C8: no event is emitted after the first response.completed event.
C8_NoEventsAfterResponseCompleted == crCompleted => crLast = << >>

\* A final Gemini event: a candidate with an empty parts list and
\* finishReason MAX_TOKENS.
GAFinalEmptyMaxTokens ==
    [hasCandidates |-> TRUE, hasContent |-> TRUE, parts |-> << >>,
     finishReason |-> "MAX_TOKENS"]

\* C9: when, after earlier text events, a final event with an empty parts
\* list and finishReason MAX_TOKENS is received, the converter emits
\* content_block_stop for the open text block, message_delta with
\* stop_reason max_tokens, and message_stop.
C9_EmptyPartsMaxTokensClosesStream ==
    (gaTextBefore /\ gaLastEvent = <<GAFinalEmptyMaxTokens>>)
    => gaLast = << ContentBlockStopEvent(0), MessageDeltaEvent("max_tokens"),
                   MessageStopEvent >>

\* C10: in the stream written by streamAnthropicFromGemini, message_start is
\* emitted exactly once and before any other event.
C10_MessageStartOnceAndFirst ==
    gaOut # << >> =>
        /\ gaOut[1].type = "message_start"
        /\ \A i \in 2..Len(gaOut) : gaOut[i].type # "message_start"

\* Number of frames of the Responses -> Anthropic client stream whose payload
\* has the given type and block index.
RABlockFrames(type, index) ==
    Cardinality({ i \in 1..Len(raFrames) :
                    /\ raFrames[i].data.type = type
                    /\ raFrames[i].data.index = index })

\* The upstream announced no output item, content part or item completion
\* twice: no two converted events have the same type and output_index among
\* response.output_item.added, response.content_part.added and
\* response.output_item.done.
RAUpstreamAnnouncesOnce ==
    \A i, j \in 1..Len(raIn) :
        (/\ i < j
         /\ raIn[i].type \in { "response.output_item.added",
                               "response.content_part.added",
                               "response.output_item.done" }
         /\ raIn[i].type = raIn[j].type)
        => raIn[i].output_index # raIn[j].output_index

\* C11: in the Anthropic-shaped stream produced from a Responses upstream,
\* no content block index receives more than one content_block_start or more
\* than one content_block_stop, also when the upstream announces a message
\* item with response.output_item.added and then response.content_part.added.
C11_OneStartAndOneStopPerBlock ==
    RAUpstreamAnnouncesOnce =>
        \A index \in 0..1 :
            /\ RABlockFrames("content_block_start", index) <= 1
            /\ RABlockFrames("content_block_stop", index) <= 1

\* C12: when the upstream of an OpenAI Chat stream sends "data: [DONE]"
\* after chunks none of which carried a finish_reason or ended the stream,
\* the client stream ends with message_delta and then message_stop, and no
\* content block is left open.
C12_DoneWithoutFinishReasonEndsStream ==
    (/\ hcPc = "returned"
     /\ hcEnd = "done"
     /\ hcState.startSent
     /\ hcState.finishReason = "")
    => /\ Len(hcFrames) >= 2
       /\ hcFrames[Len(hcFrames)].data.type = "message_stop"
       /\ hcFrames[Len(hcFrames) - 1].data.type = "message_delta"
       /\ ~hcState.contentBlockStarted

\* C15: every frame of the Anthropic-shaped stream written for an OpenAI
\* Chat upstream carries an "event:" line whose name equals the type field
\* of its data payload.
C15_EventNameEqualsPayloadType ==
    \A i \in 1..Len(hcFrames) : hcFrames[i].event = hcFrames[i].data.type

\* C13: every streaming reply in OpenAI Chat or Gemini shape whose upstream
\* stream ended (end of stream, or upstream [DONE]) has "data: [DONE]" as
\* its last frame.
C13_DoneIsLastFrame ==
    (plPc = "returned" /\ plEnd \in {"done", "eof"})
    => /\ plFrames # << >>
       /\ plFrames[Len(plFrames)] = DoneFrame

\* C14: no streaming reply contains more than one "data: [DONE]" frame; in
\* particular streamOpenAIFromGemini writes it once when the upstream itself
\* sends [DONE].
C14_AtMostOneDoneFrame ==
    Cardinality({ i \in 1..Len(plFrames) : plFrames[i] = DoneFrame }) <= 1

\* C16: on the first upstream chunk of a stream the converter emits
\* message_start immediately followed by content_block_start of a text block
\* at index 0, whatever the chunk carries (text, a tool call, or neither).
C16_FirstChunkOpensTextBlock ==
    oaCalls = 1 =>
        /\ Len(oaLast) >= 2
        /\ oaLast[1].type = "message_start"
        /\ oaLast[2] = ContentBlockStartText(0)

\* The i-th config of the request's key is active and its stored model_codes
\* is a JSON list that contains the requested model.
RPActiveAndLists(i) ==
    /\ rpKey.ProviderConfigs[i].IsActive
    /\ rpKey.ProviderConfigs[i].ModelCodes.kind = "json"
    /\ \E k \in 1..Len(rpKey.ProviderConfigs[i].ModelCodes.codes) :
         rpKey.ProviderConfigs[i].ModelCodes.codes[k] = rpModel

\* A resolution was made for a present key none of whose active configs
\* lists the requested model.
RPNoActiveConfigLists ==
    /\ rpDone
    /\ rpKey.present
    /\ \A i \in 1..Len(rpKey.ProviderConfigs) : ~RPActiveAndLists(i)

\* C17: among the key's active configs taken in stored order, the resolver
\* returns the first one whose model_codes contains the requested model,
\* with the model unchanged; a later config that also lists it is never
\* chosen.
C17_FirstMatchingConfigWins ==
    \A i \in 1..Len(rpKey.ProviderConfigs) :
        (/\ rpDone
         /\ rpKey.present
         /\ RPActiveAndLists(i)
         /\ \A j \in 1..(i - 1) : ~RPActiveAndLists(j))
        => /\ rpResult.kind = "resolved"
           /\ rpResult.Config = i
           /\ rpResult.Provider = rpKey.ProviderConfigs[i].Provider
           /\ rpResult.Model = rpModel

\* Two active configs list the requested model and the first was returned.
C17_Witness ==
    /\ rpDone
    /\ rpKey.present
    /\ Len(rpKey.ProviderConfigs) = 2
    /\ RPActiveAndLists(1)
    /\ RPActiveAndLists(2)
    /\ rpKey.ProviderConfigs[1].Provider # rpKey.ProviderConfigs[2].Provider
    /\ rpResult.kind = "resolved"
    /\ rpResult.Config = 1

\* C18: when no active config lists the requested model and the model
\* starts with a built-in prefix, the resolution returns a config of the
\* provider kind named by the prefix (the one marked default, else the
\* first active of that kind) and leaves the requested model unchanged.
C18_PrefixSelectsProviderKind ==
    LET kind == getTargetProvider(rpModel)
        ofKind == { i \in 1..Len(rpKey.ProviderConfigs) :
                      /\ rpKey.ProviderConfigs[i].IsActive
                      /\ rpKey.ProviderConfigs[i].Provider = kind }
        defaults == { i \in ofKind : rpKey.ProviderConfigs[i].IsDefault }
        candidates == IF defaults # {} THEN defaults ELSE ofKind
    IN (RPNoActiveConfigLists /\ kind # "" /\ ofKind # {})
       => /\ rpResult.kind = "resolved"
          /\ rpResult.Config \in candidates
          /\ \A j \in candidates : rpResult.Config <= j
          /\ rpResult.Model = rpModel

\* C19: when no active config lists the requested model and the model has
\* no built-in prefix, the resolver returns the key's first active config,
\* with resolved model equal to that config's model_codes[0] if model_codes
\* is non-empty and to the requested model otherwise.
C19_FallbackToFirstActiveConfig ==
    \A i \in 1..Len(rpKey.ProviderConfigs) :
        (/\ RPNoActiveConfigLists
         /\ getTargetProvider(rpModel) = ""
         /\ rpKey.ProviderConfigs[i].IsActive
         /\ \A j \in 1..(i - 1) : ~rpKey.ProviderConfigs[j].IsActive)
        => /\ rpResult.kind = "resolved"
           /\ rpResult.Config = i
           /\ rpResult.Provider = rpKey.ProviderConfigs[i].Provider
           /\ rpResult.Model =
                IF Len(rpKey.ProviderConfigs[i].ModelCodes.codes) > 0
                THEN rpKey.ProviderConfigs[i].ModelCodes.codes[1]
                ELSE rpModel

\* One active config with model_codes ["my-model"], request model
\* "unknown-xyz": that config and "my-model".
C19_Witness ==
    /\ rpDone
    /\ rpKey.present
    /\ Len(rpKey.ProviderConfigs) = 1
    /\ rpKey.ProviderConfigs[1].IsActive
    /\ rpKey.ProviderConfigs[1].ModelCodes = StoredModelCodes("json", << MyModel >>)
    /\ rpModel = UnknownXyz
    /\ rpResult.kind = "resolved"
    /\ rpResult.Config = 1
    /\ rpResult.Model = MyModel

\* C20: on every path on which the resolver returns a result, the returned
\* model is either the model the client supplied or the first entry of the
\* returned config's model_codes.
C20_ModelIsRequestedOrFirstCode ==
    (rpDone /\ rpResult.kind = "resolved")
    => \/ rpResult.Model = rpModel
       \/ /\ Len(rpKey.ProviderConfigs[rpResult.Config].ModelCodes.codes) > 0
          /\ rpResult.Model =
               rpKey.ProviderConfigs[rpResult.Config].ModelCodes.codes[1]

\* A result whose model is not the requested one, and one that matched a
\* model code that is not the config's first.
C20_Witness ==
    /\ rpDone
    /\ rpResult.kind = "resolved"
    /\ \/ rpResult.Model # rpModel
       \/ /\ rpResult.Matched
          /\ rpResult.Model #
               rpKey.ProviderConfigs[rpResult.Config].ModelCodes.codes[1]

\* The request's key was accepted by the authentication and none of its
\* provider configs is active.
GWNoActiveConfig ==
    /\ gwPc \notin {"idle", "handler"}
    /\ gwKey.found /\ gwKey.IsActive /\ ~gwKey.expired
    /\ \A i \in 1..Len(gwKey.ProviderConfigs) : ~gwKey.ProviderConfigs[i].IsActive

\* C21: when the API key has no active provider config, the resolver
\* returns an error and the request is answered 401 without any upstream
\* call.
C21_NoActiveConfigIs401 ==
    GWNoActiveConfig
    => /\ resolveProviderForAPIKey(gwKey, gwReq.model).kind = "error"
       /\ gwPc = "answered"
       /\ gwStatus = 401
       /\ gwUpstream = << >>

\* A key with one inactive config, answered 401.
C21_Witness ==
    /\ GWNoActiveConfig
    /\ Len(gwKey.ProviderConfigs) = 1
    /\ gwStatus = 401

\* C22: the resolver step makes no upstream call, decrypts no secret and
\* leaves the key's provider configs as they are; a secret is decrypted
\* only by the getCredentials step, before any upstream call.
C22_ResolverHasNoSideEffect ==
    [][/\ gwPc = "handler"
          => /\ gwUpstream' = gwUpstream
             /\ gwDecrypts' = gwDecrypts
             /\ gwKey' = gwKey
       /\ gwDecrypts' # gwDecrypts => gwPc = "credentials"
       /\ gwUpstream' # gwUpstream => (gwDecrypts = 1 /\ gwPc = "route")]_vars

\* The resolver and getCredentials have run: one secret decrypted, no
\* upstream call made yet.
C22_Witness ==
    /\ gwPc = "route"
    /\ gwDecrypts = 1
    /\ gwUpstream = << >>

\* C23: the model field of every converted reply (buffered body or
\* message_start of a stream) equals the model name the client sent in its
\* request, also when the resolver substituted model_codes[0] for it or
\* when the upstream reply names a different model.
C23_ReplyModelIsClientModel ==
    /\ gwReply # << >> => gwReply[1].model = gwReq.model
    /\ \A i \in 1..Len(gwFrames) :
         gwFrames[i].data.type = "message_start"
         => gwFrames[i].data.model = gwReq.model

\* C24: when the upstream answers a streaming call with a non-200 status,
\* the handler answers the client with 502 and writes no SSE event.
C24_UpstreamErrorStatusIs502 ==
    (/\ gwUpstream # << >>
     /\ gwReq.stream
     /\ gwUpstream[1] \notin {0, 200})
    => /\ gwStatus = 502
       /\ gwFrames = << >>

\* C25: for a streamed request authenticated with an API key, once the
\* handler has returned after writing the terminal event message_stop,
\* RecordUsage has been called exactly once.
C25_StreamRecordsUsageOnce ==
    (/\ gwPc = "answered"
     /\ gwUpstream # << >>
     /\ gwReq.stream
     /\ \E i \in 1..Len(gwFrames) : gwFrames[i].data.type = "message_stop")
    => Len(gwUsage) = 1

\* C26: a request made with an accepted API key one of whose daily or
\* monthly request or token counters has reached its limit is answered 429
\* and makes no upstream call.
C26_OverLimitIs429 ==
    (/\ gwPc # "idle"
     /\ gwKey.found /\ gwKey.IsActive /\ ~gwKey.expired
     /\ gwUsage = << >>
     /\ CheckUsageLimits(gwKey.limits, FALSE, FALSE) # "")
    => /\ gwUpstream = << >>
       /\ gwPc = "answered" => gwStatus = 429

\* Position (m, b) of a block of the converted conversation comes before
\* position (n, c).
GCEarlier(m, b, n, c) == m < n \/ (m = n /\ b < c)

\* In the Gemini request every functionResponse follows a functionCall of
\* the same name: an earlier content, or an earlier part of its content.
GCEveryResponseFollowsItsCall ==
    \A n \in 1..Len(gcReq.Contents) :
      \A c \in 1..Len(gcReq.Contents[n].Parts) :
        gcReq.Contents[n].Parts[c].FunctionResponse # ""
        => \E m \in 1..n :
             \E b \in 1..Len(gcReq.Contents[m].Parts) :
               /\ GCEarlier(m, b, n, c)
               /\ gcReq.Contents[m].Parts[b].FunctionCall
                    = gcReq.Contents[n].Parts[c].FunctionResponse

\* C27: in the output of GeminiToAnthropicRequest every tool_result block
\* carries the id of a tool_use block that appears earlier in the same
\* converted conversation.
C27_ToolResultFollowsItsToolUse ==
    (gcDone /\ GCEveryResponseFollowsItsCall)
    => \A n \in 1..Len(gcOut.Messages) :
         \A c \in 1..Len(gcOut.Messages[n].Content) :
           gcOut.Messages[n].Content[c].Type = "tool_result"
           => \E m \in 1..n :
                \E b \in 1..Len(gcOut.Messages[m].Content) :
                  /\ GCEarlier(m, b, n, c)
                  /\ gcOut.Messages[m].Content[b].Type = "tool_use"
                  /\ gcOut.Messages[m].Content[b].ID
                       = gcOut.Messages[n].Content[c].ToolUseID

\* The texts of the request's system messages, concatenated in their
\* original order.
RECURSIVE SRAllSystemText(_, _)
SRAllSystemText(msgs, i) ==
    IF i > Len(msgs) THEN << >>
    ELSE (IF msgs[i].Role = "system" THEN msgs[i].Content ELSE << >>)
         \o SRAllSystemText(msgs, i + 1)

\* C28: OpenAIToAnthropicRequest and OpenAIToGeminiRequest put in the
\* outbound system field the concatenation, in original order, of the text
\* of all system messages of the request.
C28_SystemIsAllSystemMessages ==
    srDone
    => /\ srAnthropic.System.Text = SRAllSystemText(srReq.Messages, 1)
       /\ srAnthropicSecond.System.Text = SRAllSystemText(srReq.Messages, 1)
       /\ srGemini.SystemInstruction.Text = SRAllSystemText(srReq.Messages, 1)

\* C29: when the upstream reply carries no usage object, the converted
\* reply written to the client carries no usage object either.
C29_AbsentUsageStaysAbsent ==
    (/\ gwReply # << >>
     /\ ~gwBody[1].hasUsage)
    => ~gwReply[1].hasUsage

\* The user's rows of a provider that have is_default = true.
CFDefaults(provider) ==
    { i \in 1..MaxConfigRows :
        cfRows[i].exists /\ cfRows[i].Provider = provider /\ cfRows[i].IsDefault }

\* C30: once the CreateConfig, SetDefault, ToggleActive and DeleteConfig
\* calls made for a user, concurrent ones included, have all returned, at
\* most one of the user's configs of each provider has is_default = true.
C30_AtMostOneDefaultPerProvider ==
    (\A p \in CFCallers : cfPc[p] = "idle")
    => \A provider \in CFProviders : Cardinality(CFDefaults(provider)) <= 1

\* Event k of the stream opens a content block.
OAIsStart(k) == oaOut[k].type = "content_block_start"

\* Event k of the stream closes a content block.
OAIsStop(k) == oaOut[k].type = "content_block_stop"

\* C31: in the events emitted by OpenAIStreamToAnthropicStream at most one
\* content block is open at a time: every content_block_stop closes the
\* block opened by the nearest earlier content_block_start, with its index,
\* and every content_block_start has its content_block_stop before the next
\* content_block_start and before message_delta.
C31_OneOpenBlockAtATime ==
    \A k \in 1..Len(oaOut) :
      /\ OAIsStop(k)
         => \E j \in 1..(k - 1) :
              /\ OAIsStart(j)
              /\ oaOut[j].index = oaOut[k].index
              /\ \A m \in (j + 1)..(k - 1) : ~OAIsStart(m) /\ ~OAIsStop(m)
      /\ (OAIsStart(k) \/ oaOut[k].type = "message_delta")
         => \A j \in 1..(k - 1) :
              OAIsStart(j)
              => \E m \in (j + 1)..(k - 1) :
                   OAIsStop(m) /\ oaOut[m].index = oaOut[j].index

\* C31 witness: a stream that opened a text block and a tool_use block and
\* then ended with message_delta.
C31_Witness ==
    /\ \E j, k \in 1..Len(oaOut) :
         /\ j < k
         /\ OAIsStart(j) /\ oaOut[j].block = "text"
         /\ OAIsStart(k) /\ oaOut[k].block = "tool_use"
    /\ HasEventOfType(oaOut, "message_delta")

\* C32: the finishReason of the state record only goes from empty to
\* non-empty; once it is non-empty no later call changes it.
C32_FinishReasonLatched ==
    [][oaState.finishReason # "" => oaState'.finishReason = oaState.finishReason]_vars

\* C32 witness: with "stop" stored, a later chunk carried finish_reason
\* "length".
C32_Witness ==
    /\ oaState.finishReason = "stop"
    /\ oaCalls >= 2
    /\ oaLastChunk # << >>
    /\ Len(oaLastChunk[1].choices) > 0
    /\ oaLastChunk[1].choices[1].finish_reason = "length"

\* C33: block indices start at 0 and every newly opened block has the index
\* one greater than the block opened before it: the n-th content_block_start
\* of the stream carries index n - 1.
C33_BlockIndicesCountUp ==
    \A k \in 1..Len(oaOut) :
      OAIsStart(k)
      => oaOut[k].index = Cardinality({ j \in 1..(k - 1) : OAIsStart(j) })

\* C33 witness: three blocks were opened in one stream.
C33_Witness ==
    Cardinality({ k \in 1..Len(oaOut) : OAIsStart(k) }) >= 3

\* C34: after the stream machine has returned its terminal event the pump
\* loop makes no further call to the machine.
C34_NoCallAfterTerminalEvent == hcLateCalls = 0

C36_PumpLoopReadsEveryLine ==
    /\ urLogBuf = << >>
    /\ urLogged = << >>
    /\ urPump \o urPumpBuf \o urBody = [i \in 1..urSent |-> i]

\* C37: for every JSON object received as an upstream stream event the
\* stream converters return (events, nothing or an error): they never panic.
C37_ConvertersNeverPanic == pnDone => pnOutcome # "panic"

\* The RecordUsage calls that have returned nil.
RUReturned == { p \in RUCallers : ruPc[p] = "returned" }

\* Sum of prompt + completion tokens of the calls of a set of callers.
RECURSIVE RUTotalTokens(_)
RUTotalTokens(callers) ==
    IF callers = {} THEN 0
    ELSE LET p == CHOOSE q \in callers : TRUE
         IN ruArgs[p].promptTokens + ruArgs[p].completionTokens
            + RUTotalTokens(callers \ {p})

\* C38: when the concurrent RecordUsage calls for a key have all returned,
\* one usage record exists per call, each request counter has grown by the
\* number of calls and each token counter by the sum of the calls' tokens.
C38_NoIncrementLost ==
    (\A p \in RUCallers : ruPc[p] = "returned")
    => /\ \A p \in RUCallers :
            Cardinality({ i \in 1..Len(ruRecords) : ruRecords[i].caller = p }) = 1
       /\ ruKey.DailyRequestsUsed = Cardinality(RUReturned)
       /\ ruKey.MonthlyRequestsUsed = Cardinality(RUReturned)
       /\ ruKey.DailyTokensUsed = RUTotalTokens(RUReturned)
       /\ ruKey.MonthlyTokensUsed = RUTotalTokens(RUReturned)

\* C38 witness: every call has returned, each having reported tokens and
\* created its record.
C38_Witness ==
    /\ \A p \in RUCallers : ruPc[p] = "returned"
    /\ \A p \in RUCallers : ruArgs[p].promptTokens + ruArgs[p].completionTokens > 0
    /\ Len(ruRecords) = MaxUsageCallers

\* C39: each ToggleActive call flips is_active of its config: the UPDATE a
\* call ends with leaves the row's is_active the opposite of what it was
\* just before, so two concurrent calls on one config leave it as it was.
C39_ToggleFlipsOnce ==
    [][\A p \in CFCallers :
         (/\ cfPc[p] = "toggle"
          /\ cfPc'[p] = "idle"
          /\ cfRows[cfLocal[p].id].exists)
         => cfRows'[cfLocal[p].id].IsActive = ~cfRows[cfLocal[p].id].IsActive]_vars

====
